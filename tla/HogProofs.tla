----------------------------- MODULE HogProofs ------------------------------
(***************************************************************************)
(* Reports on their way to the host, for any threads' reports, buffers and *)
(* hosts: a report that nothing disturbs arrives as it is, no report goes  *)
(* to another host than its own, and no key that keyboard_print types      *)
(* sticks.                                                                 *)
(***************************************************************************)
EXTENDS Hog, BtLinkProofs

Places == {"idle", "copy1", "copy2", "trigger", "alloc", "fill1", "fill2", "send"}

LEMMA ReportParts ==
  ASSUME NEW r \in Reports
  PROVE  r[1] \in Parts /\ r[2] \in Parts /\ r = <<r[1], r[2]>>
<1>1. r[1] \in Parts /\ r[2] \in Parts
  BY DEF Parts
<1>2. r = <<r[1], r[2]>>
  BY HogAssumption DEF Reports, Empty
<1>3. QED
  BY <1>1, <1>2

LEMMA Copied ==
  ASSUME NEW d \in Parts \X Parts, NEW s, s[1] \in Parts, s[2] \in Parts
  PROVE  /\ memcpy(d, s, 1) = <<s[1], d[2]>> /\ memcpy(d, s, 2) = <<d[1], s[2]>>
BY DEF memcpy

LEMMA EmptyParts == Empty \in Reports /\ Empty[1] = NoKey /\ Empty[2] = NoKey /\ NoKey \in Parts
<1>1. Empty \in Reports /\ Empty[1] = NoKey /\ Empty[2] = NoKey
  BY DEF Reports, Empty
<1>2. QED
  BY <1>1, ReportParts

HogTypes ==
  /\ pc \in [Notifiers -> Places]
  /\ kb_report \in [Notifiers -> Reports]
  /\ input_keyboard \in Parts \X Parts
  /\ pdu \in [Notifiers -> Pdus]
  /\ tx \in Seq(Hosts)
  /\ left \in 0..(2 * Chars)
  /\ view \in Parts \X Parts

\* A step of one thread in hog_set_keyboard_input, part by part.
Moved(t) ==
  /\ pc[t] # "idle" /\ (t = kbd => ~Ready(main))
  /\ pc' = [pc EXCEPT ![t] = pc'[t]] /\ pdu' = [pdu EXCEPT ![t] = pdu'[t]]
  /\ UNCHANGED <<kb_report, left, overlap, steady>>
  /\ \/ /\ pc[t] = "copy1" /\ pc'[t] = "copy2"
        /\ input_keyboard' = <<kb_report[t][1], input_keyboard[2]>>
        /\ UNCHANGED <<pdu, tx, view, missed, linkVars>>
     \/ /\ pc[t] = "copy2" /\ pc'[t] = "trigger"
        /\ input_keyboard' = <<input_keyboard[1], kb_report[t][2]>>
        /\ UNCHANGED <<pdu, tx, view, missed, linkVars>>
     \/ /\ pc[t] = "trigger" /\ pc'[t] = "alloc" /\ Lookup(t)
        /\ pdu'[t] = [to |-> conn, value |-> pdu[t].value]
        /\ UNCHANGED <<input_keyboard, tx, view, missed>>
     \/ /\ pc[t] = "trigger" /\ pc'[t] = "idle" /\ ~MayNotify
        /\ link = "up" => missed'
        /\ UNCHANGED <<input_keyboard, pdu, tx, view, linkVars>>
     \/ /\ pc[t] = "alloc" /\ HasBuffer /\ pc'[t] = "fill1"
        /\ UNCHANGED <<input_keyboard, pdu, tx, view, missed, linkVars>>
     \/ /\ pc[t] = "fill1" /\ pc'[t] = "fill2"
        /\ pdu'[t] = [to |-> pdu[t].to, value |-> <<input_keyboard[1], pdu[t].value[2]>>]
        /\ UNCHANGED <<input_keyboard, tx, view, missed, linkVars>>
     \/ /\ pc[t] = "fill2" /\ pc'[t] = "send"
        /\ pdu'[t] = [to |-> pdu[t].to, value |-> <<pdu[t].value[1], input_keyboard[2]>>]
        /\ UNCHANGED <<input_keyboard, tx, view, missed, linkVars>>
     \/ /\ pc[t] = "send" /\ pc'[t] = "idle" /\ Unref(t) /\ pdu'[t] = NoPdu
        /\ link # "none" => tx' = Append(tx, pdu[t].to) /\ view' = pdu[t].value
        /\ link = "none" => tx' = tx /\ view' = view
        /\ UNCHANGED input_keyboard

\* What a step does at each place.
LEMMA MovedFrom ==
  ASSUME NEW t, Moved(t)
  PROVE  /\ pc[t] = "copy1" =>
              /\ pc'[t] = "copy2" /\ pdu' = pdu /\ tx' = tx /\ view' = view
              /\ input_keyboard'[1] = kb_report[t][1] /\ input_keyboard'[2] = input_keyboard[2]
         /\ pc[t] = "copy2" =>
              /\ pc'[t] = "trigger" /\ pdu' = pdu /\ tx' = tx /\ view' = view
              /\ input_keyboard'[1] = input_keyboard[1] /\ input_keyboard'[2] = kb_report[t][2]
         /\ pc[t] = "trigger" =>
              /\ pc'[t] = "alloc" \/ (pc'[t] = "idle" /\ ~MayNotify)
              /\ tx' = tx /\ view' = view /\ input_keyboard' = input_keyboard
         /\ pc[t] = "alloc" =>
              /\ pc'[t] = "fill1" /\ HasBuffer /\ pdu' = pdu /\ tx' = tx /\ view' = view
              /\ input_keyboard' = input_keyboard
         /\ pc[t] = "fill1" =>
              /\ pc'[t] = "fill2" /\ tx' = tx /\ view' = view /\ input_keyboard' = input_keyboard
              /\ pdu'[t].value[1] = input_keyboard[1]
         /\ pc[t] = "fill2" =>
              /\ pc'[t] = "send" /\ tx' = tx /\ view' = view /\ input_keyboard' = input_keyboard
              /\ pdu'[t].value[1] = pdu[t].value[1] /\ pdu'[t].value[2] = input_keyboard[2]
         /\ pc[t] = "send" =>
              /\ pc'[t] = "idle" /\ input_keyboard' = input_keyboard
              /\ tx' = tx \/ tx' = Append(tx, pdu[t].to)
         /\ pc[t] \in {"copy1", "copy2", "trigger", "alloc", "fill1", "fill2", "send"}
<1>1. ASSUME pc[t] = "copy1"
      PROVE  /\ pc'[t] = "copy2" /\ pdu' = pdu /\ tx' = tx /\ view' = view
             /\ input_keyboard' = <<kb_report[t][1], input_keyboard[2]>>
  BY <1>1 DEF Moved
<1>2. ASSUME pc[t] = "copy2"
      PROVE  /\ pc'[t] = "trigger" /\ pdu' = pdu /\ tx' = tx /\ view' = view
             /\ input_keyboard' = <<input_keyboard[1], kb_report[t][2]>>
  BY <1>2 DEF Moved
<1>3. ASSUME pc[t] = "trigger"
      PROVE  /\ pc'[t] = "alloc" \/ (pc'[t] = "idle" /\ ~MayNotify)
             /\ tx' = tx /\ view' = view /\ input_keyboard' = input_keyboard
  BY <1>3 DEF Moved
<1>4. ASSUME pc[t] = "alloc"
      PROVE  /\ pc'[t] = "fill1" /\ HasBuffer /\ pdu' = pdu /\ tx' = tx /\ view' = view
             /\ input_keyboard' = input_keyboard
  BY <1>4 DEF Moved
<1>5. ASSUME pc[t] = "fill1"
      PROVE  /\ pc'[t] = "fill2" /\ tx' = tx /\ view' = view /\ input_keyboard' = input_keyboard
             /\ pdu'[t] = [to |-> pdu[t].to, value |-> <<input_keyboard[1], pdu[t].value[2]>>]
  BY <1>5 DEF Moved
<1>6. ASSUME pc[t] = "fill2"
      PROVE  /\ pc'[t] = "send" /\ tx' = tx /\ view' = view /\ input_keyboard' = input_keyboard
             /\ pdu'[t] = [to |-> pdu[t].to, value |-> <<pdu[t].value[1], input_keyboard[2]>>]
  BY <1>6 DEF Moved
<1>7. ASSUME pc[t] = "send"
      PROVE  /\ pc'[t] = "idle" /\ input_keyboard' = input_keyboard
             /\ tx' = tx \/ tx' = Append(tx, pdu[t].to)
  BY <1>7 DEF Moved
<1>8. pc[t] \in {"copy1", "copy2", "trigger", "alloc", "fill1", "fill2", "send"}
  BY DEF Moved
<1>9. QED
  BY <1>1, <1>2, <1>3, <1>4, <1>5, <1>6, <1>7, <1>8

LEMMA StepMoves ==
  ASSUME HogTypes, NEW t \in Notifiers, Step(t)
  PROVE  Moved(t)
<1>1. pc[t] # "idle" /\ (t = kbd => ~Ready(main)) /\ (pc[t] = "alloc" => HasBuffer)
  BY DEF Step, Copy, trigger_report_notification, gatt_notify, bt_att_send, MayRun, Ready
<1>2. input_keyboard \in Parts \X Parts /\ kb_report[t][1] \in Parts /\ kb_report[t][2] \in Parts
  BY ReportParts DEF HogTypes
<1>3. pdu[t] \in Pdus /\ pdu[t].value \in Parts \X Parts
  BY DEF HogTypes, Pdus
<1>4. input_keyboard[1] \in Parts /\ input_keyboard[2] \in Parts
  BY <1>2
<1>5. ASSUME NEW l, Goto(t, l) PROVE pc'[t] = l /\ pc' = [pc EXCEPT ![t] = pc'[t]]
  BY <1>5 DEF Goto, HogTypes
<1>6. pdu' = pdu => pdu' = [pdu EXCEPT ![t] = pdu'[t]]
  BY DEF HogTypes
<1>7. CASE Copy(t)
  <2>1. CASE /\ pc[t] = "copy1" /\ Goto(t, "copy2")
             /\ input_keyboard' = memcpy(input_keyboard, kb_report[t], 1)
    <3>1. input_keyboard' = <<kb_report[t][1], input_keyboard[2]>>
      BY <1>2, <2>1, Copied
    <3>2. QED
      BY <1>1, <1>5, <1>6, <1>7, <2>1, <3>1 DEF Copy, Moved
  <2>2. CASE /\ pc[t] = "copy2" /\ Goto(t, "trigger")
             /\ input_keyboard' = memcpy(input_keyboard, kb_report[t], 2)
    <3>1. input_keyboard' = <<input_keyboard[1], kb_report[t][2]>>
      BY <1>2, <2>2, Copied
    <3>2. QED
      BY <1>1, <1>5, <1>6, <1>7, <2>2, <3>1 DEF Copy, Moved
  <2>3. QED
    BY <1>7, <2>1, <2>2 DEF Copy
<1>8. CASE trigger_report_notification(t)
  <2>1. CASE Lookup(t) /\ Goto(t, "alloc") /\ pdu' = [pdu EXCEPT ![t].to = conn] /\ UNCHANGED missed
    <3>1. /\ pdu'[t] = [to |-> conn, value |-> pdu[t].value]
          /\ pdu' = [pdu EXCEPT ![t] = pdu'[t]]
      BY <1>3, <2>1 DEF HogTypes, Pdus
    <3>2. QED
      BY <1>1, <1>5, <1>8, <2>1, <3>1 DEF trigger_report_notification, Moved
  <2>2. CASE /\ ~MayNotify /\ Goto(t, "idle") /\ missed' = (missed \/ link = "up")
             /\ UNCHANGED <<pdu, linkVars>>
    <3>1. link = "up" => missed'
      BY <2>2, Zenon
    <3>2. QED
      BY <1>1, <1>5, <1>6, <1>8, <2>2, <3>1 DEF trigger_report_notification, Moved
  <2>3. QED
    BY <1>8, <2>1, <2>2 DEF trigger_report_notification
<1>9. CASE gatt_notify(t)
  <2>1. CASE pc[t] = "alloc" /\ Goto(t, "fill1") /\ UNCHANGED pdu
    BY <1>1, <1>5, <1>6, <1>9, <2>1 DEF gatt_notify, Moved
  <2>2. CASE /\ pc[t] = "fill1" /\ Goto(t, "fill2")
             /\ pdu' = [pdu EXCEPT ![t].value = memcpy(@, input_keyboard, 1)]
    <3>1. memcpy(pdu[t].value, input_keyboard, 1) = <<input_keyboard[1], pdu[t].value[2]>>
      BY <1>3, <1>4, Copied
    <3>2. /\ pdu'[t] = [to |-> pdu[t].to, value |-> <<input_keyboard[1], pdu[t].value[2]>>]
          /\ pdu' = [pdu EXCEPT ![t] = pdu'[t]]
      BY <1>3, <2>2, <3>1 DEF HogTypes, Pdus
    <3>3. QED
      BY <1>1, <1>5, <1>9, <2>2, <3>2 DEF gatt_notify, Moved
  <2>3. CASE /\ pc[t] = "fill2" /\ Goto(t, "send")
             /\ pdu' = [pdu EXCEPT ![t].value = memcpy(@, input_keyboard, 2)]
    <3>1. memcpy(pdu[t].value, input_keyboard, 2) = <<pdu[t].value[1], input_keyboard[2]>>
      BY <1>3, <1>4, Copied
    <3>2. /\ pdu'[t] = [to |-> pdu[t].to, value |-> <<pdu[t].value[1], input_keyboard[2]>>]
          /\ pdu' = [pdu EXCEPT ![t] = pdu'[t]]
      BY <1>3, <2>3, <3>1 DEF HogTypes, Pdus
    <3>3. QED
      BY <1>1, <1>5, <1>9, <2>3, <3>2 DEF gatt_notify, Moved
  <2>4. QED
    BY <1>9, <2>1, <2>2, <2>3 DEF gatt_notify
<1>10. CASE bt_att_send(t)
  <2>1. pdu'[t] = NoPdu /\ pdu' = [pdu EXCEPT ![t] = pdu'[t]]
    BY <1>10 DEF bt_att_send, HogTypes
  <2>2. QED
    BY <1>1, <1>5, <1>10, <2>1 DEF bt_att_send, Moved
<1>11. QED
  BY <1>7, <1>8, <1>9, <1>10 DEF Step

-----------------------------------------------------------------------------
(***************************************************************************)
(* The link below                                                          *)
(***************************************************************************)
LEMMA HogStepsLink == ASSUME HogTypes, [HogNext]_allVars PROVE [LinkNext]_linkVars
<1>1. ASSUME NEW r \in KbdReports, KeyEvent(r) PROVE UNCHANGED linkVars
  BY <1>1 DEF KeyEvent, Call
<1>2. CASE keyboard_print
  BY <1>2 DEF keyboard_print, Call
<1>3. ASSUME NEW t \in Notifiers, Step(t) PROVE [LinkNext]_linkVars
  <2>1. Moved(t)
    BY <1>3, StepMoves
  <2>2. UNCHANGED linkVars \/ Lookup(t) \/ Unref(t)
    BY <2>1 DEF Moved
  <2>3. QED
    BY <2>2, Zenon DEF LinkNext
<1>4. CASE Transmit
  BY <1>4 DEF Transmit
<1>5. CASE Stack
  BY <1>5, Zenon DEF Stack, LinkNext
<1>6. CASE UNCHANGED allVars
  BY <1>6 DEF allVars
<1>7. QED
  BY <1>1, <1>2, <1>3, <1>4, <1>5, <1>6, Zenon DEF HogNext

LEMMA StackSteps ==
  ASSUME BootInv, StackNext
  PROVE  /\ holders' = holders
         /\ \/ conn' = conn /\ (link' = "up" => link = "up")
            \/ conn = None /\ link = "none" /\ holders = {}
            \/ conn' = None /\ link = "down" /\ link' = "none"
<1>1. CASE bt_enable \/ register_callbacks \/ bt_ready
  BY <1>1 DEF bt_enable, register_callbacks, bt_ready, connection
<1>2. ASSUME NEW h \in Hosts, Connect(h) PROVE holders' = holders /\ conn = None /\ link = "none" /\ holders = {}
  BY <1>2 DEF Connect, BootInv
<1>3. ASSUME NEW level, encrypt_change(level)
      PROVE  holders' = holders /\ conn' = conn
  BY <1>3 DEF encrypt_change
<1>4. CASE Encrypt
  BY <1>3, <1>4 DEF Encrypt
<1>5. ASSUME NEW p \in Pairings, Pair(p[1], p[2])
      PROVE  holders' = holders /\ conn' = conn /\ link = "up"
  BY <1>3, <1>5 DEF Pair
<1>6. CASE PairingDone \/ PairingFails \/ Disconnect
  BY <1>6 DEF PairingDone, PairingFails, Disconnect
<1>7. ASSUME NEW v \in Written, write_ccc(v) PROVE holders' = holders /\ conn' = conn /\ link' = link
  BY <1>7 DEF write_ccc, connection
<1>8. CASE Cleanup
  BY <1>8 DEF Cleanup
<1>9. QED
  BY <1>1, <1>2, <1>4, <1>5, <1>6, <1>7, <1>8, Zenon DEF StackNext

-----------------------------------------------------------------------------
(***************************************************************************)
(* Who holds the connection, and for which host                            *)
(***************************************************************************)
RefInv ==
  /\ \A t \in Notifiers :
       /\ t \in holders <=> pc[t] \in {"alloc", "fill1", "fill2", "send"}
       /\ t \in holders => pdu[t].to \in Hosts /\ conn \in {pdu[t].to, None}
  /\ \A i \in 1..Len(tx) : tx[i] = conn

LEMMA RefInvImplies == ASSUME BootInv, RefInv PROVE NoReportForAnotherHost
<1>1. holders \subseteq Notifiers
  BY DEF BootInv
<1>2. QED
  BY <1>1 DEF RefInv, NoReportForAnotherHost

LEMMA HogTypesInit == ASSUME HogInit PROVE HogTypes /\ RefInv
<1>1. pc \in [Notifiers -> Places] /\ kb_report \in [Notifiers -> Reports]
  BY EmptyParts DEF HogInit, Places
<1>2. Empty \in Parts \X Parts
  BY EmptyParts DEF Empty
<1>3. pdu \in [Notifiers -> Pdus]
  BY <1>2 DEF HogInit, NoPdu, Pdus
<1>4. tx = <<>> /\ tx \in Seq(Hosts) /\ Len(tx) = 0
  BY DEF HogInit
<1>5. left \in 0..(2 * Chars)
  BY HogAssumption DEF HogInit
<1>6. holders = {} /\ \A t \in Notifiers : pc[t] = "idle"
  BY DEF HogInit, LinkInit
<1>7. RefInv
  BY <1>4, <1>6 DEF RefInv
<1>8. HogTypes
  BY <1>1, <1>2, <1>3, <1>4, <1>5 DEF HogInit, HogTypes
<1>9. QED
  BY <1>7, <1>8

LEMMA CallKeepsTypes ==
  ASSUME HogTypes, RefInv, NEW t \in Notifiers, NEW r \in Reports, Call(t, r),
         left' \in 0..(2 * Chars)
  PROVE  HogTypes' /\ RefInv'
<1>1. /\ pc[t] = "idle" /\ pc' = [pc EXCEPT ![t] = "copy1"]
      /\ kb_report' = [kb_report EXCEPT ![t] = r]
      /\ UNCHANGED <<input_keyboard, pdu, tx, view, holders, conn>>
  BY DEF Call, Goto, linkVars, connection
<1>2. HogTypes'
  BY <1>1 DEF HogTypes, Places
<1>3. RefInv'
  BY <1>1 DEF HogTypes, RefInv
<1>4. QED
  BY <1>2, <1>3

LEMMA MoveKeepsTypes ==
  ASSUME BootInv, HogTypes, RefInv, NEW t \in Notifiers, Moved(t)
  PROVE  HogTypes' /\ RefInv'
<1>1. /\ pc[t] # "idle" /\ pc' = [pc EXCEPT ![t] = pc'[t]] /\ pdu' = [pdu EXCEPT ![t] = pdu'[t]]
      /\ UNCHANGED <<kb_report, left>>
  BY DEF Moved
<1>2. kb_report[t][1] \in Parts /\ kb_report[t][2] \in Parts
  BY ReportParts DEF HogTypes
<1>3. /\ input_keyboard[1] \in Parts /\ input_keyboard[2] \in Parts
      /\ pdu[t] \in Pdus /\ pdu[t].to \in Hosts \cup {None} /\ pdu[t].value \in Parts \X Parts
      /\ pdu[t].value[1] \in Parts /\ pdu[t].value[2] \in Parts
  BY DEF HogTypes, Pdus
<1>4. input_keyboard' \in Parts \X Parts
  <2>1. \/ input_keyboard' = input_keyboard
        \/ input_keyboard' = <<kb_report[t][1], input_keyboard[2]>>
        \/ input_keyboard' = <<input_keyboard[1], kb_report[t][2]>>
    BY Zenon DEF Moved
  <2>2. input_keyboard \in Parts \X Parts
    BY DEF HogTypes
  <2>3. QED
    BY <1>2, <1>3, <2>1, <2>2
<1>5. MayNotify => conn \in Hosts
  BY DEF MayNotify, BootInv
<1>6. pdu'[t] \in Pdus
  <2>1. NoPdu \in Pdus
    BY EmptyParts DEF NoPdu, Pdus, Empty
  <2>2. CASE pdu' = pdu
    BY <1>3, <2>2
  <2>3. CASE Lookup(t) /\ pdu'[t] = [to |-> conn, value |-> pdu[t].value]
    BY <1>3, <1>5, <2>3 DEF Lookup, Pdus
  <2>4. CASE pdu'[t] = [to |-> pdu[t].to, value |-> <<input_keyboard[1], pdu[t].value[2]>>]
    BY <1>3, <2>4 DEF Pdus
  <2>5. CASE pdu'[t] = [to |-> pdu[t].to, value |-> <<pdu[t].value[1], input_keyboard[2]>>]
    BY <1>3, <2>5 DEF Pdus
  <2>6. QED
    BY <2>1, <2>2, <2>3, <2>4, <2>5 DEF Moved
<1>7. pc'[t] \in Places
  BY DEF Moved, Places
<1>8. /\ pc[t] = "send" => t \in holders /\ pdu[t].to \in Hosts /\ conn \in {pdu[t].to, None}
      /\ link = "none" <=> conn = None
  BY DEF RefInv, BootInv
<1>9. /\ tx' \in Seq(Hosts)
      /\ \/ tx' = tx
         \/ /\ pc[t] = "send" /\ tx' = Append(tx, pdu[t].to) /\ pdu[t].to = conn
  <2>1. tx' = tx \/ (pc[t] = "send" /\ link # "none" /\ tx' = Append(tx, pdu[t].to))
    BY DEF Moved
  <2>2. CASE tx' = tx
    BY <2>2 DEF HogTypes
  <2>3. CASE pc[t] = "send" /\ link # "none" /\ tx' = Append(tx, pdu[t].to)
    <3>1. pdu[t].to = conn /\ pdu[t].to \in Hosts
      BY <1>8, <2>3
    <3>2. Append(tx, pdu[t].to) \in Seq(Hosts)
      BY <3>1 DEF HogTypes
    <3>3. QED
      BY <2>3, <3>1, <3>2
  <2>4. QED
    BY <2>1, <2>2, <2>3
<1>10. view' \in Parts \X Parts
  BY <1>3 DEF Moved, HogTypes
<1>11. HogTypes'
  BY <1>1, <1>4, <1>6, <1>7, <1>9, <1>10 DEF HogTypes
<1>12. conn' = conn
  BY DEF Moved, linkVars, connection, Lookup, Unref
<1>13. /\ t \in holders' <=> pc'[t] \in {"alloc", "fill1", "fill2", "send"}
       /\ holders' \ {t} = holders \ {t}
       /\ t \in holders' => pdu'[t].to \in Hosts /\ conn \in {pdu'[t].to, None}
  <2>1. t \in holders <=> pc[t] \in {"alloc", "fill1", "fill2", "send"}
    BY DEF RefInv
  <2>2. t \in holders => pdu[t].to \in Hosts /\ conn \in {pdu[t].to, None}
    BY DEF RefInv
  <2>3. CASE pc[t] = "trigger" /\ pc'[t] = "alloc" /\ Lookup(t) /\ pdu'[t] = [to |-> conn, value |-> pdu[t].value]
    BY <1>5, <2>3 DEF Lookup
  <2>4. CASE pc[t] = "send" /\ pc'[t] = "idle" /\ Unref(t)
    BY <2>4 DEF Unref
  <2>5. CASE UNCHANGED linkVars
    <3>1. holders' = holders
      BY <2>5 DEF linkVars
    <3>2. pc'[t] \in {"alloc", "fill1", "fill2", "send"} => pdu'[t].to = pdu[t].to
      <4>1. \/ pdu' = pdu
            \/ Lookup(t)
            \/ pdu'[t] = [to |-> pdu[t].to, value |-> <<input_keyboard[1], pdu[t].value[2]>>]
            \/ pdu'[t] = [to |-> pdu[t].to, value |-> <<pdu[t].value[1], input_keyboard[2]>>]
            \/ pc'[t] = "idle"
        BY Zenon DEF Moved
      <4>2. ~Lookup(t)
        BY <3>1 DEF Lookup
      <4>3. QED
        BY <4>1, <4>2
    <3>3. pc'[t] \in {"alloc", "fill1", "fill2", "send"} <=> pc[t] \in {"alloc", "fill1", "fill2", "send"}
      BY <2>5, <3>1 DEF Moved, Lookup, Unref
    <3>4. QED
      BY <2>1, <2>2, <3>1, <3>2, <3>3
  <2>6. QED
    BY <2>3, <2>4, <2>5 DEF Moved
<1>14. \A u \in Notifiers : u # t => pc'[u] = pc[u] /\ pdu'[u] = pdu[u]
  BY <1>1 DEF HogTypes
<1>15. ASSUME NEW i \in 1..Len(tx') PROVE tx'[i] = conn
  <2>1. CASE tx' = tx
    BY <2>1 DEF RefInv
  <2>2. CASE tx' = Append(tx, pdu[t].to) /\ pdu[t].to = conn
    BY <1>3, <2>2 DEF RefInv, HogTypes
  <2>3. QED
    BY <1>9, <2>1, <2>2
<1>16. RefInv'
  <2>1. ASSUME NEW u \in Notifiers
        PROVE  /\ u \in holders' <=> pc'[u] \in {"alloc", "fill1", "fill2", "send"}
               /\ u \in holders' => pdu'[u].to \in Hosts /\ conn' \in {pdu'[u].to, None}
    <3>1. CASE u = t
      BY <1>12, <1>13, <3>1
    <3>2. CASE u # t
      BY <1>12, <1>13, <1>14, <3>2 DEF RefInv
    <3>3. QED
      BY <3>1, <3>2
  <2>2. QED
    BY <1>12, <1>15, <2>1 DEF RefInv
<1>17. QED
  BY <1>11, <1>16

LEMMA StackKeepsTypes ==
  ASSUME BootInv, HogTypes, RefInv, Stack
  PROVE  HogTypes' /\ RefInv'
<1>1. /\ UNCHANGED <<pc, kb_report, input_keyboard, pdu, left>>
      /\ tx' = (IF link = "down" /\ link' = "none" THEN <<>> ELSE tx)
      /\ view' \in {Empty, view}
  BY DEF Stack, conn_cleanup
<1>2. /\ holders' = holders
      /\ \/ conn' = conn
         \/ conn = None /\ holders = {}
         \/ conn' = None /\ link = "down" /\ link' = "none"
  BY StackSteps DEF Stack
<1>3. HogTypes'
  <2>1. Empty \in Parts \X Parts
    BY EmptyParts DEF Empty
  <2>2. QED
    BY <1>1, <2>1 DEF HogTypes
<1>4. \A i \in 1..Len(tx') : tx'[i] = conn'
  <2>1. CASE conn' = conn
    BY <1>1, <2>1 DEF RefInv
  <2>2. CASE conn = None
    <3>1. Len(tx) = 0
      BY <2>2, LinkAssumption DEF RefInv, HogTypes
    <3>2. Len(tx') = 0
      BY <1>1, <3>1
    <3>3. QED
      BY <3>2
  <2>3. CASE conn' = None /\ link = "down" /\ link' = "none"
    BY <1>1, <2>3
  <2>4. QED
    BY <1>2, <2>1, <2>2, <2>3
<1>5. RefInv'
  BY <1>1, <1>2, <1>4 DEF RefInv
<1>6. QED
  BY <1>3, <1>5

LEMMA PrintedReports == ASSUME NEW n PROVE Printed(n) \in Reports
BY DEF Printed, Reports

LEMMA StepKeepsTypes ==
  ASSUME BootInv, HogTypes, RefInv, [HogNext]_allVars
  PROVE  HogTypes' /\ RefInv'
<1>1. kbd \in Notifiers /\ main \in Notifiers
  BY HogAssumption
<1>2. ASSUME NEW r \in KbdReports, KeyEvent(r) PROVE HogTypes' /\ RefInv'
  <2>1. r \in Reports /\ Call(kbd, r) /\ left' \in 0..(2 * Chars)
    BY <1>2 DEF KeyEvent, Reports, HogTypes
  <2>2. QED
    BY <1>1, <2>1, CallKeepsTypes
<1>3. CASE keyboard_print
  <2>1. PICK r \in Reports : r = Printed(left)
    BY PrintedReports
  <2>2. Call(main, r) /\ left' = (IF left = 0 THEN 2 * Chars ELSE left - 1)
    BY <1>3, <2>1 DEF keyboard_print
  <2>3. left' \in 0..(2 * Chars)
    BY <2>2, HogAssumption DEF HogTypes
  <2>4. QED
    BY <1>1, <2>2, <2>3, CallKeepsTypes
<1>4. ASSUME NEW t \in Notifiers, Step(t) PROVE HogTypes' /\ RefInv'
  BY <1>4, StepMoves, MoveKeepsTypes
<1>5. CASE Transmit
  <2>1. /\ tx # <<>> /\ tx' = Tail(tx)
        /\ UNCHANGED <<pc, kb_report, input_keyboard, pdu, left, view, holders, conn>>
    BY <1>5 DEF Transmit, linkVars, connection
  <2>2. tx' \in Seq(Hosts) /\ \A i \in 1..Len(tx') : tx'[i] = conn
    BY <2>1 DEF HogTypes, RefInv
  <2>3. QED
    BY <2>1, <2>2 DEF HogTypes, RefInv
<1>6. CASE Stack
  BY <1>6, StackKeepsTypes
<1>7. CASE UNCHANGED allVars
  BY <1>7 DEF allVars, hogVars, linkVars, connection, HogTypes, RefInv
<1>8. QED
  BY <1>2, <1>3, <1>4, <1>5, <1>6, <1>7, Zenon DEF HogNext

-----------------------------------------------------------------------------
(***************************************************************************)
(* The buffers                                                             *)
(***************************************************************************)
Fills(l) == IF l \in {"fill1", "fill2", "send"} THEN 1 ELSE 0
BuffersInv == Len(tx) + Fills(pc[kbd]) + Fills(pc[main]) <= TxBufs

LEMMA FillsType == ASSUME NEW l PROVE Fills(l) \in {0, 1}
BY DEF Fills

LEMMA FillingSize == Cardinality(Filling) = Fills(pc[kbd]) + Fills(pc[main])
<1>1. Notifiers = {kbd, main} /\ kbd # main
  BY HogAssumption
<1>2. \A t \in Notifiers : t \in Filling <=> Fills(pc[t]) = 1
  BY DEF Filling, Fills
<1>3. \A t \in Notifiers : Fills(pc[t]) \in {0, 1}
  BY FillsType
<1>4. Filling \subseteq Notifiers
  BY DEF Filling
<1>5. CASE kbd \in Filling /\ main \in Filling
  <2>1. PICK S : S = {kbd}
    OBVIOUS
  <2>2. IsFiniteSet(S) /\ Cardinality(S) = 1 /\ main \notin S
    BY <1>1, <2>1, FS_Singleton
  <2>3. Cardinality(S \cup {main}) = 2
    BY <2>2, FS_AddElement
  <2>4. Filling = S \cup {main}
    BY <1>1, <1>4, <1>5, <2>1
  <2>5. QED
    BY <1>1, <1>2, <1>5, <2>3, <2>4
<1>6. CASE kbd \in Filling /\ main \notin Filling
  <2>1. Filling = {kbd}
    BY <1>1, <1>4, <1>6
  <2>2. Cardinality(Filling) = 1
    BY <2>1, FS_Singleton
  <2>3. QED
    BY <1>1, <1>2, <1>3, <1>6, <2>2
<1>7. CASE kbd \notin Filling /\ main \in Filling
  <2>1. Filling = {main}
    BY <1>1, <1>4, <1>7
  <2>2. Cardinality(Filling) = 1
    BY <2>1, FS_Singleton
  <2>3. QED
    BY <1>1, <1>2, <1>3, <1>7, <2>2
<1>8. CASE kbd \notin Filling /\ main \notin Filling
  <2>1. Filling = {}
    BY <1>1, <1>4, <1>8
  <2>2. Cardinality(Filling) = 0
    BY <2>1, FS_EmptySet
  <2>3. QED
    BY <1>1, <1>2, <1>3, <1>8, <2>2
<1>9. QED
  BY <1>5, <1>6, <1>7, <1>8

LEMMA BuffersInit == ASSUME HogInit PROVE BuffersInv
<1>1. tx = <<>> /\ pc[kbd] = "idle" /\ pc[main] = "idle"
  BY HogAssumption DEF HogInit
<1>2. QED
  BY <1>1, HogAssumption DEF BuffersInv, Fills

LEMMA StepKeepsBuffers ==
  ASSUME HogTypes, BuffersInv, [HogNext]_allVars
  PROVE  BuffersInv'
<1>1. Notifiers = {kbd, main} /\ kbd # main /\ Len(tx) \in Nat /\ TxBufs \in Nat
  BY HogAssumption DEF HogTypes
<1>2. ASSUME NEW t \in Notifiers, NEW r, Call(t, r) PROVE BuffersInv'
  <2>1. pc[t] = "idle" /\ pc' = [pc EXCEPT ![t] = "copy1"] /\ tx' = tx
    BY <1>2 DEF Call, Goto
  <2>2. pc'[t] = "copy1" /\ \A u \in Notifiers : u # t => pc'[u] = pc[u]
    BY <2>1 DEF HogTypes
  <2>3. QED
    BY <1>1, <2>1, <2>2 DEF BuffersInv, Fills
<1>3. CASE keyboard_print \/ \E r \in KbdReports : KeyEvent(r)
  BY <1>1, <1>2, <1>3 DEF keyboard_print, KeyEvent
<1>4. ASSUME NEW t \in Notifiers, Step(t) PROVE BuffersInv'
  <2>1. Moved(t)
    BY <1>4, StepMoves
  <2>2. PICK u \in Notifiers : u # t /\ {t, u} = Notifiers
    BY <1>1
  <2>3. pc'[u] = pc[u]
    <3>1. pc' = [pc EXCEPT ![t] = pc'[t]]
      BY <2>1 DEF Moved
    <3>2. QED
      BY <2>2, <3>1 DEF HogTypes
  <2>4. Len(tx) + Fills(pc[t]) + Fills(pc[u]) <= TxBufs
    <3>1. (t = kbd /\ u = main) \/ (t = main /\ u = kbd)
      BY <1>1, <2>2
    <3>2. QED
      BY <1>1, <3>1, FillsType DEF BuffersInv
  <2>5. Len(tx') + Fills(pc'[t]) + Fills(pc[u]) <= TxBufs
    <3>1. CASE pc[t] = "send" /\ pc'[t] = "idle"
      <4>0. Len(tx) \in Nat /\ (tx' = tx \/ Len(tx') = Len(tx) + 1)
        <5>1. tx' = tx \/ tx' = Append(tx, pdu[t].to)
          BY <2>1, <3>1, MovedFrom, Zenon
        <5>2. tx \in Seq(Hosts)
          BY DEF HogTypes
        <5>3. QED
          BY <5>1, <5>2
      <4>1. Len(tx') <= Len(tx) + 1
        BY <1>1, <4>0
      <4>2. Len(tx') \in Nat
        BY <1>1, <4>0
      <4>3. QED
        BY <1>1, <2>4, <3>1, <4>1, <4>2 DEF Fills
    <3>2. CASE pc[t] = "alloc" /\ HasBuffer /\ pc'[t] = "fill1" /\ tx' = tx
      <4>1. Len(tx) + (Fills(pc[t]) + Fills(pc[u])) < TxBufs
        BY <1>1, <2>2, <3>2, FillingSize DEF HasBuffer, Fills
      <4>2. QED
        BY <1>1, <3>2, <4>1 DEF Fills
    <3>3. CASE Fills(pc'[t]) = Fills(pc[t]) /\ tx' = tx
      BY <2>4, <3>3
    <3>4. QED
      BY <2>1, <3>1, <3>2, <3>3 DEF Moved, Fills
  <2>6. QED
    <3>1. (t = kbd /\ u = main) \/ (t = main /\ u = kbd)
      BY <1>1, <2>2
    <3>2. Len(tx') \in Nat
      BY <2>1, MovedFrom DEF HogTypes
    <3>3. Len(tx') + Fills(pc'[t]) + Fills(pc'[u]) <= TxBufs
      BY <2>3, <2>5
    <3>4. QED
      BY <1>1, <3>1, <3>2, <3>3, FillsType DEF BuffersInv
<1>5. CASE Transmit
  <2>1. pc' = pc /\ tx # <<>> /\ tx' = Tail(tx)
    BY <1>5 DEF Transmit
  <2>2. Len(tx') \in Nat /\ Len(tx') <= Len(tx)
    BY <2>1 DEF HogTypes
  <2>3. QED
    BY <1>1, <2>1, <2>2, FillsType DEF BuffersInv
<1>6. CASE Stack
  <2>1. pc' = pc /\ (tx' = tx \/ tx' = <<>>)
    BY <1>6 DEF Stack, conn_cleanup
  <2>2. Len(tx') \in Nat /\ Len(tx') <= Len(tx)
    BY <1>1, <2>1
  <2>3. QED
    BY <1>1, <2>1, <2>2, FillsType DEF BuffersInv
<1>7. CASE UNCHANGED allVars
  BY <1>7 DEF allVars, hogVars, BuffersInv
<1>8. QED
  BY <1>3, <1>4, <1>5, <1>6, <1>7, Zenon DEF HogNext

HogFlags == overlap \in BOOLEAN /\ steady \in BOOLEAN /\ missed \in BOOLEAN

LEMMA StepKeepsFlagsOfHog == ASSUME HogFlags, [HogNext]_allVars PROVE HogFlags'
<1>1. ASSUME NEW r \in KbdReports, KeyEvent(r) PROVE HogFlags'
  BY <1>1, Zenon DEF KeyEvent, Call, MayNotify, HogFlags
<1>2. CASE keyboard_print
  BY <1>2, Zenon DEF keyboard_print, Call, HogFlags
<1>3. ASSUME NEW t \in Notifiers, Step(t) PROVE HogFlags'
  <2>1. CASE Copy(t) \/ gatt_notify(t)
    BY <2>1, Zenon DEF Copy, gatt_notify, HogFlags
  <2>2. CASE trigger_report_notification(t)
    BY <2>2, Zenon DEF trigger_report_notification, HogFlags
  <2>3. CASE bt_att_send(t)
    BY <2>3, Zenon DEF bt_att_send, HogFlags
  <2>4. QED
    BY <1>3, <2>1, <2>2, <2>3, Zenon DEF Step
<1>4. CASE Transmit \/ Stack
  BY <1>4, Zenon DEF Transmit, Stack, HogFlags
<1>5. CASE UNCHANGED allVars
  BY <1>5, Zenon DEF allVars, hogVars, HogFlags
<1>6. QED
  BY <1>1, <1>2, <1>3, <1>4, <1>5, Zenon DEF HogNext

HogInv == LinkInv /\ HogTypes /\ RefInv /\ BuffersInv /\ HogFlags

LEMMA HogInvInit == ASSUME HogInit PROVE HogInv
<1>1. LinkInv
  BY LinkInvInit DEF HogInit
<1>2. HogFlags
  BY Zenon DEF HogInit, HogFlags
<1>3. QED
  BY <1>1, <1>2, HogTypesInit, BuffersInit DEF HogInv

LEMMA StepKeepsHog == ASSUME HogInv, [HogNext]_allVars PROVE HogInv'
<1>1. LinkInv /\ BootInv /\ HogTypes /\ RefInv /\ BuffersInv /\ HogFlags
  BY DEF HogInv, LinkInv
<1>2. LinkInv'
  BY <1>1, HogStepsLink, StepKeepsLink
<1>3. QED
  BY <1>1, <1>2, StepKeepsTypes, StepKeepsBuffers, StepKeepsFlagsOfHog DEF HogInv

LEMMA HogInvImplies == ASSUME HogInv PROVE HogTypeOK /\ NoReportForAnotherHost
<1>1. LinkInv /\ BootInv /\ HogTypes /\ RefInv /\ BuffersInv /\ HogFlags
  BY DEF HogInv, LinkInv
<1>2. Len(tx) <= TxBufs
  BY <1>1, HogAssumption, FillsType DEF BuffersInv, HogTypes
<1>3. QED
  BY <1>1, <1>2, LinkInvTypes, RefInvImplies, Zenon
  DEF HogTypeOK, HogTypes, Places, HogFlags

\* Reports stay well formed, and bt_att_create_pdu never hands out more
\* buffers than there are, for any reports, hosts and numbers of buffers.
THEOREM HogTypeCorrect == HogSpec => []HogTypeOK
<1>1. HogInv /\ [HogNext]_allVars => HogInv'
  BY StepKeepsHog
<1>2. HogInit => HogInv
  BY HogInvInit
<1>3. HogInv => HogTypeOK
  BY HogInvImplies
<1>4. QED
  BY <1>1, <1>2, <1>3, PTL DEF HogSpec

\* A notification goes to the host that the subscription was read from, even
\* if that host leaves and another one wants to connect while hog.c waits for
\* a buffer: notify_cb's reference keeps the connection's place.
THEOREM HogNoReportForAnotherHost == HogSpec => []NoReportForAnotherHost
<1>1. HogInv /\ [HogNext]_allVars => HogInv'
  BY StepKeepsHog
<1>2. HogInit => HogInv
  BY HogInvInit
<1>3. HogInv => NoReportForAnotherHost
  BY HogInvImplies
<1>4. QED
  BY <1>1, <1>2, <1>3, PTL DEF HogSpec

-----------------------------------------------------------------------------
(***************************************************************************)
(* A key event that main does not disturb                                  *)
(***************************************************************************)
\* Where the parts of kbd's report are while main is at rest.
Whole ==
  /\ pc[kbd] \notin {"idle", "copy1"} => input_keyboard[1] = kb_report[kbd][1]
  /\ pc[kbd] \notin {"idle", "copy1", "copy2"} => input_keyboard[2] = kb_report[kbd][2]
  /\ pc[kbd] \in {"fill2", "send"} => pdu[kbd].value[1] = kb_report[kbd][1]
  /\ pc[kbd] = "send" => pdu[kbd].value[2] = kb_report[kbd][2]
  /\ steady /\ pc[kbd] = "idle" => view = kb_report[kbd]

UndisturbedInv ==
  /\ pc[main] # "idle" => overlap
  /\ steady => MayNotify
  /\ ~overlap => Whole

LEMMA MayNotifyKept ==
  ASSUME NEW t, UNCHANGED linkVars \/ Lookup(t) \/ Unref(t)
  PROVE  MayNotify' = MayNotify
<1>1. UNCHANGED <<simulate_input, link, cfg, conn>>
  BY DEF linkVars, connection, ccc, Lookup, Unref
<1>2. QED
  BY <1>1 DEF MayNotify, ValueOf, EntriesOf

LEMMA KbdMovesUndisturbed ==
  ASSUME HogTypes, UndisturbedInv, Moved(kbd)
  PROVE  UndisturbedInv'
<1>1. kbd \in Notifiers /\ main \in Notifiers /\ kbd # main
  BY HogAssumption
<1>2. pc'[main] = pc[main] /\ kb_report' = kb_report /\ overlap' = overlap /\ steady' = steady
  BY <1>1 DEF Moved, HogTypes
<1>3. MayNotify' = MayNotify
  <2>1. UNCHANGED linkVars \/ Lookup(kbd) \/ Unref(kbd)
    BY DEF Moved
  <2>2. QED
    BY <2>1, MayNotifyKept
<1>4. ASSUME ~overlap PROVE Whole'
  <2>1. Whole
    BY <1>4 DEF UndisturbedInv
  <2>2. /\ kb_report[kbd] = <<kb_report[kbd][1], kb_report[kbd][2]>>
        /\ pdu[kbd].value = <<pdu[kbd].value[1], pdu[kbd].value[2]>>
    BY <1>1, ReportParts DEF HogTypes, Pdus
  <2>3. CASE pc[kbd] \in {"copy1", "copy2", "alloc", "fill1", "fill2"}
    BY <1>2, <2>1, <2>3, MovedFrom DEF Whole
  <2>4. CASE pc[kbd] = "trigger"
    <3>1. CASE pc'[kbd] = "alloc"
      BY <1>2, <2>1, <2>4, <3>1, MovedFrom DEF Whole
    <3>2. CASE pc'[kbd] = "idle"
      <4>1. ~steady
        BY <2>4, <3>2, MovedFrom DEF UndisturbedInv
      <4>2. QED
        BY <1>2, <3>2, <4>1 DEF Whole
    <3>3. QED
      BY <2>4, <3>1, <3>2 DEF Moved
  <2>5. CASE pc[kbd] = "send"
    <3>1. pc'[kbd] = "idle"
      BY <2>5 DEF Moved
    <3>2. steady => link # "none"
      BY DEF UndisturbedInv, MayNotify
    <3>3. link # "none" => view' = pdu[kbd].value
      BY <2>5 DEF Moved
    <3>4. pdu[kbd].value = kb_report[kbd]
      BY <2>1, <2>2, <2>5 DEF Whole
    <3>5. QED
      BY <1>2, <3>1, <3>2, <3>3, <3>4 DEF Whole
  <2>6. QED
    BY <1>1, <2>3, <2>4, <2>5 DEF Moved, HogTypes, Places
<1>5. QED
  BY <1>2, <1>3, <1>4 DEF UndisturbedInv

LEMMA UndisturbedInit == ASSUME HogInit PROVE UndisturbedInv
<1>1. pc[main] = "idle" /\ pc[kbd] = "idle" /\ steady = FALSE
  BY HogAssumption DEF HogInit
<1>2. QED
  BY <1>1 DEF UndisturbedInv, Whole

LEMMA StepKeepsUndisturbed ==
  ASSUME BootInv, HogTypes, UndisturbedInv, [HogNext]_allVars
  PROVE  UndisturbedInv'
<1>1. Notifiers = {kbd, main} /\ kbd # main
  BY HogAssumption
<1>2. ASSUME NEW r \in KbdReports, KeyEvent(r) PROVE UndisturbedInv'
  <2>1. pc' = [pc EXCEPT ![kbd] = "copy1"] /\ UNCHANGED linkVars
    BY <1>2 DEF KeyEvent, Call, Goto
  <2>2. pc'[kbd] = "copy1" /\ pc'[main] = pc[main]
    BY <1>1, <2>1 DEF HogTypes
  <2>3. Whole'
    BY <2>2 DEF Whole
  <2>4. (steady' <=> MayNotify) /\ (overlap' <=> pc[main] # "idle")
    BY <1>2, Zenon DEF KeyEvent
  <2>5. MayNotify' = MayNotify
    BY <2>1, MayNotifyKept
  <2>6. QED
    BY <2>2, <2>3, <2>4, <2>5 DEF UndisturbedInv
<1>3. CASE keyboard_print
  <2>1. overlap' = TRUE /\ steady' = steady /\ UNCHANGED linkVars
    BY <1>3 DEF keyboard_print, Call
  <2>2. MayNotify' = MayNotify
    BY <2>1, MayNotifyKept
  <2>3. QED
    BY <2>1, <2>2 DEF UndisturbedInv
<1>4. CASE Step(kbd)
  BY <1>1, <1>4, StepMoves, KbdMovesUndisturbed
<1>5. CASE Step(main)
  <2>1. Moved(main)
    BY <1>1, <1>5, StepMoves
  <2>2. UNCHANGED linkVars \/ Lookup(main) \/ Unref(main)
    BY <2>1 DEF Moved
  <2>3. overlap /\ overlap' = overlap /\ steady' = steady /\ MayNotify' = MayNotify
    BY <2>1, <2>2, MayNotifyKept DEF Moved, UndisturbedInv
  <2>4. QED
    BY <2>3 DEF UndisturbedInv
<1>6. CASE Transmit
  <2>1. /\ UNCHANGED <<pc, kb_report, input_keyboard, pdu, view, overlap, steady>>
        /\ UNCHANGED linkVars
    BY <1>6 DEF Transmit
  <2>2. MayNotify' = MayNotify
    BY <2>1, MayNotifyKept
  <2>3. QED
    BY <2>1, <2>2 DEF UndisturbedInv, Whole
<1>7. CASE Stack
  <2>1. /\ UNCHANGED <<pc, kb_report, input_keyboard, pdu, overlap>>
        /\ view' = IF link' = "none" THEN Empty ELSE view
    BY <1>7 DEF Stack
  <2>2. steady' => steady /\ MayNotify'
    BY <1>7, Zenon DEF Stack
  <2>3. steady' => link' # "none"
    BY <2>2 DEF MayNotify
  <2>4. QED
    BY <2>1, <2>2, <2>3 DEF UndisturbedInv, Whole
<1>8. CASE UNCHANGED allVars
  <2>1. /\ UNCHANGED <<pc, kb_report, input_keyboard, pdu, view, overlap, steady>>
        /\ UNCHANGED linkVars
    BY <1>8 DEF allVars, hogVars
  <2>2. MayNotify' = MayNotify
    BY <2>1, MayNotifyKept
  <2>3. QED
    BY <2>1, <2>2 DEF UndisturbedInv, Whole
<1>9. QED
  BY <1>1, <1>2, <1>3, <1>4, <1>5, <1>6, <1>7, <1>8 DEF HogNext

\* A key event that keyboard_print does not disturb, on a subscribed link,
\* leaves the host with exactly the translator's report.
THEOREM HogUndisturbed == HogSpec => []Undisturbed
<1>1. HogInv /\ UndisturbedInv /\ [HogNext]_allVars => HogInv' /\ UndisturbedInv'
  BY StepKeepsHog, StepKeepsUndisturbed DEF HogInv, LinkInv
<1>2. HogInit => HogInv /\ UndisturbedInv
  BY HogInvInit, UndisturbedInit
<1>3. UndisturbedInv => Undisturbed
  BY DEF UndisturbedInv, Undisturbed, Alone, Whole
<1>4. QED
  BY <1>1, <1>2, <1>3, PTL DEF HogSpec

-----------------------------------------------------------------------------
(***************************************************************************)
(* Printed keys do not stick.  Once keyboard_print has handed over its     *)
(* last report, which is empty, everything on its way to the host has no   *)
(* keys but those of kbd's report, unless kbd has yet to copy that.        *)
(***************************************************************************)
Ok(x, i) == x \in {NoKey, kb_report[kbd][i]}

InputOk ==
  /\ pc[main] = "copy2" => input_keyboard[1] = NoKey
  /\ pc[main] \notin {"copy1", "copy2"} =>
       /\ pc[kbd] # "copy1" => Ok(input_keyboard[1], 1)
       /\ pc[kbd] \notin {"copy1", "copy2"} => Ok(input_keyboard[2], 2)

PdusOk ==
  /\ pc[kbd] \in {"fill2", "send"} => Ok(pdu[kbd].value[1], 1)
  /\ pc[kbd] = "send" => Ok(pdu[kbd].value[2], 2)
  /\ pc[kbd] = "idle" /\ pc[main] \in {"fill2", "send"} => Ok(pdu[main].value[1], 1)
  /\ pc[kbd] = "idle" /\ pc[main] = "send" => Ok(pdu[main].value[2], 2)

ViewOk ==
  pc[kbd] = "idle" /\ pc[main] = "idle" /\ link = "up" /\ ~missed
    => Ok(view[1], 1) /\ Ok(view[2], 2)

SticksInv ==
  /\ link = "none" => view = Empty
  /\ left = 0 => kb_report[main] = Empty /\ InputOk /\ PdusOk /\ ViewOk

LEMMA SticksInvImplies == ASSUME SticksInv PROVE NothingSticks
<1>1. kbd \in Notifiers /\ main \in Notifiers /\ 1..2 = {1, 2}
  BY HogAssumption
<1>2. QED
  BY <1>1 DEF SticksInv, ViewOk, Ok, NothingSticks

LEMMA SticksInit == ASSUME HogInit PROVE SticksInv
<1>1. /\ pc[kbd] = "idle" /\ pc[main] = "idle" /\ kb_report[main] = Empty
      /\ input_keyboard = Empty /\ view = Empty
  BY HogAssumption DEF HogInit
<1>2. Ok(Empty[1], 1) /\ Ok(Empty[2], 2)
  BY EmptyParts DEF Ok
<1>3. QED
  BY <1>1, <1>2 DEF SticksInv, InputOk, PdusOk, ViewOk

LEMMA KbdMovesStick ==
  ASSUME HogTypes, SticksInv, Moved(kbd)
  PROVE  SticksInv'
<1>1. kbd \in Notifiers /\ main \in Notifiers /\ kbd # main
  BY HogAssumption
<1>2. pc'[main] = pc[main] /\ pdu'[main] = pdu[main] /\ kb_report' = kb_report /\ left' = left
  BY <1>1 DEF Moved, HogTypes
<1>3. pc[main] \in {"idle", "alloc"}
  BY DEF Moved, Ready
<1>4. link' = link
  BY DEF Moved, linkVars, connection, Lookup, Unref
<1>5. link' = "none" => view' = Empty
  BY <1>4 DEF Moved, SticksInv
<1>6. SUFFICES ASSUME left = 0 PROVE InputOk' /\ PdusOk' /\ ViewOk'
  BY <1>2, <1>5 DEF SticksInv
<1>7. InputOk /\ PdusOk /\ ViewOk
  BY <1>6 DEF SticksInv
<1>8. CASE pc[kbd] \in {"copy1", "copy2"}
  <2>1. pc'[kbd] \in {"copy2", "trigger"} /\ (pc'[kbd] = "trigger" <=> pc[kbd] = "copy2")
    BY <1>8 DEF Moved
  <2>2. InputOk'
    BY <1>2, <1>3, <1>7, <1>8, MovedFrom DEF InputOk, Ok
  <2>3. PdusOk' /\ ViewOk'
    BY <1>3, <2>1 DEF PdusOk, ViewOk
  <2>4. QED
    BY <2>2, <2>3
<1>9. CASE pc[kbd] \notin {"copy1", "copy2"}
  <2>1. input_keyboard' = input_keyboard /\ pc'[kbd] \notin {"copy1", "copy2"}
    BY <1>9 DEF Moved
  <2>2. Ok(input_keyboard[1], 1) /\ Ok(input_keyboard[2], 2)
    BY <1>3, <1>7, <1>9 DEF InputOk
  <2>3. InputOk'
    BY <1>2, <1>3, <2>1, <2>2 DEF InputOk, Ok
  <2>4. PdusOk'
    <3>1. pc'[main] \notin {"fill2", "send"}
      BY <1>2, <1>3
    <3>2. CASE pc[kbd] = "fill1"
      BY <1>2, <2>2, <3>1, <3>2, MovedFrom DEF PdusOk, Ok
    <3>3. CASE pc[kbd] = "fill2"
      BY <1>2, <1>7, <2>2, <3>1, <3>3, MovedFrom DEF PdusOk, Ok
    <3>4. CASE pc[kbd] \notin {"fill1", "fill2"}
      <4>1. pc'[kbd] \notin {"fill2", "send"}
        BY <1>9, <3>4 DEF Moved
      <4>2. QED
        BY <3>1, <4>1 DEF PdusOk
    <3>5. QED
      BY <3>2, <3>3, <3>4
  <2>5. ViewOk'
    <3>1. CASE pc[kbd] = "send"
      <4>1. link = "up" => view' = pdu[kbd].value
        BY <3>1 DEF Moved
      <4>2. Ok(pdu[kbd].value[1], 1) /\ Ok(pdu[kbd].value[2], 2)
        BY <1>7, <3>1 DEF PdusOk
      <4>3. QED
        BY <1>2, <1>4, <4>1, <4>2 DEF ViewOk, Ok
    <3>2. CASE pc[kbd] = "trigger"
      BY <1>4, <3>2 DEF Moved, ViewOk
    <3>3. CASE pc[kbd] \notin {"trigger", "send"}
      <4>1. pc'[kbd] # "idle"
        BY <1>9, <3>3 DEF Moved
      <4>2. QED
        BY <4>1 DEF ViewOk
    <3>4. QED
      BY <3>1, <3>2, <3>3
  <2>6. QED
    BY <2>3, <2>4, <2>5
<1>10. QED
  BY <1>8, <1>9

LEMMA MainMovesStick ==
  ASSUME HogTypes, SticksInv, Moved(main)
  PROVE  SticksInv'
<1>1. kbd \in Notifiers /\ main \in Notifiers /\ kbd # main
  BY HogAssumption
<1>2. pc'[kbd] = pc[kbd] /\ pdu'[kbd] = pdu[kbd] /\ kb_report' = kb_report /\ left' = left
  BY <1>1 DEF Moved, HogTypes
<1>3. pc[main] # "idle"
  BY DEF Moved
<1>4. link' = link
  BY DEF Moved, linkVars, connection, Lookup, Unref
<1>5. link' = "none" => view' = Empty
  BY <1>4 DEF Moved, SticksInv
<1>6. SUFFICES ASSUME left = 0 PROVE InputOk' /\ PdusOk' /\ ViewOk'
  BY <1>2, <1>5 DEF SticksInv
<1>7. InputOk /\ PdusOk /\ kb_report[main][1] = NoKey /\ kb_report[main][2] = NoKey
  BY <1>6, EmptyParts DEF SticksInv
<1>8. CASE pc[main] \in {"copy1", "copy2"}
  <2>1. pc'[main] \in {"copy2", "trigger"} /\ pdu' = pdu
    BY <1>8 DEF Moved
  <2>2. InputOk'
    BY <1>2, <1>7, <1>8, MovedFrom DEF InputOk, Ok
  <2>3. PdusOk' /\ ViewOk'
    BY <1>2, <1>7, <2>1 DEF PdusOk, ViewOk, Ok
  <2>4. QED
    BY <2>2, <2>3
<1>9. CASE pc[main] \notin {"copy1", "copy2"}
  <2>1. input_keyboard' = input_keyboard /\ pc'[main] \notin {"copy1", "copy2"}
    BY <1>9 DEF Moved
  <2>2. /\ pc[kbd] # "copy1" => Ok(input_keyboard[1], 1)
        /\ pc[kbd] \notin {"copy1", "copy2"} => Ok(input_keyboard[2], 2)
    BY <1>7, <1>9 DEF InputOk
  <2>3. InputOk'
    BY <1>2, <2>1, <2>2 DEF InputOk, Ok
  <2>4. PdusOk'
    <3>1. CASE pc[main] = "fill1"
      BY <1>2, <1>7, <2>2, <3>1, MovedFrom DEF PdusOk, Ok
    <3>2. CASE pc[main] = "fill2"
      BY <1>2, <1>7, <2>2, <3>2, MovedFrom DEF PdusOk, Ok
    <3>3. CASE pc[main] \notin {"fill1", "fill2"}
      <4>1. pc'[main] \notin {"fill2", "send"}
        BY <1>9, <3>3 DEF Moved
      <4>2. QED
        BY <1>2, <1>7, <4>1 DEF PdusOk, Ok
    <3>4. QED
      BY <3>1, <3>2, <3>3
  <2>5. ViewOk'
    <3>1. CASE pc[main] = "send"
      <4>1. link = "up" => view' = pdu[main].value
        BY <3>1 DEF Moved
      <4>2. pc[kbd] = "idle" => Ok(pdu[main].value[1], 1) /\ Ok(pdu[main].value[2], 2)
        BY <1>7, <3>1 DEF PdusOk
      <4>3. QED
        BY <1>2, <1>4, <4>1, <4>2 DEF ViewOk, Ok
    <3>2. CASE pc[main] = "trigger"
      BY <1>4, <3>2 DEF Moved, ViewOk
    <3>3. CASE pc[main] \notin {"trigger", "send"}
      <4>1. pc'[main] # "idle"
        BY <1>9, <3>3 DEF Moved
      <4>2. QED
        BY <4>1 DEF ViewOk
    <3>4. QED
      BY <3>1, <3>2, <3>3
  <2>6. QED
    BY <2>3, <2>4, <2>5
<1>10. QED
  BY <1>8, <1>9

LEMMA PrintSticks ==
  ASSUME Unhurried, HogTypes, UndisturbedInv, SticksInv, keyboard_print
  PROVE  SticksInv'
<1>1. kbd \in Notifiers /\ main \in Notifiers /\ kbd # main
  BY HogAssumption
<1>2. /\ pc' = [pc EXCEPT ![main] = "copy1"]
      /\ kb_report' = [kb_report EXCEPT ![main] = Printed(left)]
      /\ UNCHANGED <<pdu, view>> /\ UNCHANGED linkVars
      /\ left' = (IF left = 0 THEN 2 * Chars ELSE left - 1)
  BY DEF keyboard_print, Call, Goto
<1>3. link' = link
  BY <1>2 DEF linkVars, connection
<1>4. /\ pc'[main] = "copy1" /\ pc'[kbd] = pc[kbd]
      /\ kb_report'[main] = Printed(left) /\ kb_report'[kbd] = kb_report[kbd]
  BY <1>1, <1>2 DEF HogTypes
<1>5. SUFFICES ASSUME left' = 0 PROVE kb_report'[main] = Empty /\ InputOk' /\ PdusOk' /\ ViewOk'
  BY <1>2, <1>3 DEF SticksInv
<1>6. left = 1
  BY <1>2, <1>5, HogAssumption DEF HogTypes
<1>7. kb_report'[main] = Empty
  BY <1>4, <1>6 DEF Printed
<1>8. PdusOk'
  <2>1. CASE overlap
    <3>1. ~Ready(kbd)
      BY <1>6, <2>1, HogAssumption DEF keyboard_print
    <3>2. pc[kbd] \in {"idle", "alloc"}
      BY <3>1 DEF Ready
    <3>3. QED
      BY <1>4, <3>2 DEF PdusOk
  <2>2. CASE ~overlap
    <3>1. Whole
      BY <2>2 DEF UndisturbedInv
    <3>2. QED
      BY <1>2, <1>4, <3>1 DEF PdusOk, Whole, Ok
  <2>3. QED
    BY <2>1, <2>2
<1>9. QED
  BY <1>4, <1>7, <1>8 DEF InputOk, ViewOk

LEMMA StackSticks == ASSUME BootInv, SticksInv, Stack PROVE SticksInv'
<1>1. /\ UNCHANGED <<pc, kb_report, input_keyboard, pdu, left>>
      /\ view' = IF link' = "none" THEN Empty ELSE view
  BY DEF Stack
<1>2. link' # "none" /\ missed => missed'
  BY Zenon DEF Stack
<1>3. link' = "up" => link = "up" \/ link = "none"
  BY StackSteps DEF Stack
<1>4. SUFFICES ASSUME left = 0 PROVE InputOk' /\ PdusOk' /\ ViewOk'
  BY <1>1 DEF SticksInv
<1>5. InputOk /\ PdusOk /\ ViewOk
  BY <1>4 DEF SticksInv
<1>6. InputOk' /\ PdusOk'
  BY <1>1, <1>5 DEF InputOk, PdusOk, Ok
<1>7. ViewOk'
  <2>1. CASE link = "none"
    <3>1. view' = Empty
      BY <1>1, <2>1 DEF SticksInv
    <3>2. Empty[1] = NoKey /\ Empty[2] = NoKey
      BY EmptyParts
    <3>3. QED
      BY <3>1, <3>2 DEF ViewOk, Ok
  <2>2. CASE link # "none"
    BY <1>1, <1>2, <1>3, <1>5, <2>2 DEF ViewOk, Ok
  <2>3. QED
    BY <2>1, <2>2
<1>8. QED
  BY <1>6, <1>7

LEMMA StepKeepsSticks ==
  ASSUME Unhurried, BootInv, HogTypes, UndisturbedInv, SticksInv, [HogNext]_allVars
  PROVE  SticksInv'
<1>1. Notifiers = {kbd, main} /\ kbd # main
  BY HogAssumption
<1>2. ASSUME NEW r \in KbdReports, KeyEvent(r) PROVE SticksInv'
  <2>1. /\ pc' = [pc EXCEPT ![kbd] = "copy1"] /\ ~Ready(main)
        /\ kb_report' = [kb_report EXCEPT ![kbd] = r]
        /\ UNCHANGED <<view, left>> /\ UNCHANGED linkVars
    BY <1>2 DEF KeyEvent, Call, Goto
  <2>2. pc'[kbd] = "copy1" /\ pc'[main] = pc[main] /\ kb_report'[main] = kb_report[main]
    BY <1>1, <2>1 DEF HogTypes
  <2>3. link' = link
    BY <2>1 DEF linkVars, connection
  <2>4. pc[main] # "copy2"
    BY <2>1 DEF Ready
  <2>5. InputOk' /\ PdusOk' /\ ViewOk'
    BY <2>2, <2>4 DEF InputOk, PdusOk, ViewOk
  <2>6. QED
    BY <2>1, <2>2, <2>3, <2>5 DEF SticksInv
<1>3. CASE keyboard_print
  BY <1>3, PrintSticks
<1>4. CASE Step(kbd)
  BY <1>1, <1>4, StepMoves, KbdMovesStick
<1>5. CASE Step(main)
  BY <1>1, <1>5, StepMoves, MainMovesStick
<1>6. CASE Stack
  BY <1>6, StackSticks
<1>7. CASE Transmit \/ UNCHANGED allVars
  <2>1. /\ UNCHANGED <<pc, kb_report, input_keyboard, pdu, left, view, missed>>
        /\ UNCHANGED linkVars
    BY <1>7 DEF Transmit, allVars, hogVars
  <2>2. link' = link
    BY <2>1 DEF linkVars, connection
  <2>3. (InputOk => InputOk') /\ (PdusOk => PdusOk')
    BY <2>1 DEF InputOk, PdusOk, Ok
  <2>4. ViewOk => ViewOk'
    BY <2>1, <2>2 DEF ViewOk, Ok
  <2>5. QED
    BY <2>1, <2>2, <2>3, <2>4 DEF SticksInv
<1>8. QED
  BY <1>1, <1>2, <1>3, <1>4, <1>5, <1>6, <1>7 DEF HogNext

\* No key that keyboard_print types sticks, although main and the keyboard
\* thread write the same input_keyboard without a lock: for any reports, any
\* length of the string and any hosts, if in the pauses of keyboard_print the
\* keyboard thread gets to run.
THEOREM HogNothingSticks == ASSUME Unhurried PROVE HogSpec => []NothingSticks
<1>1. HogInv /\ UndisturbedInv /\ SticksInv /\ [HogNext]_allVars
        => HogInv' /\ UndisturbedInv' /\ SticksInv'
  BY StepKeepsHog, StepKeepsUndisturbed, StepKeepsSticks DEF HogInv, LinkInv
<1>2. HogInit => HogInv /\ UndisturbedInv /\ SticksInv
  BY HogInvInit, UndisturbedInit, SticksInit
<1>3. SticksInv => NothingSticks
  BY SticksInvImplies
<1>4. QED
  BY <1>1, <1>2, <1>3, PTL DEF HogSpec
=============================================================================
