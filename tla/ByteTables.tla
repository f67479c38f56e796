----------------------------- MODULE ByteTables -----------------------------
(***************************************************************************)
(* The byte tables and the parity fold of the program against reference    *)
(* definitions, one byte x per state.                                      *)
(***************************************************************************)
EXTENDS PS2Bits, HidKeys

VARIABLE x  \* the byte under consideration

\* Mutant: the nibbles of the index are swapped, but not reversed.
bit_reverse_table_nibbles == [n \in 1..256 |-> ((n - 1) % 16) * 16 + (n - 1) \div 16]

\* bit_reverse_table of ps2_connector.c; the C index starts at 0.
bit_reverse_table == <<
    0, 128,  64, 192,  32, 160,  96, 224,  16, 144,  80, 208,  48, 176, 112, 240,
    8, 136,  72, 200,  40, 168, 104, 232,  24, 152,  88, 216,  56, 184, 120, 248,
    4, 132,  68, 196,  36, 164, 100, 228,  20, 148,  84, 212,  52, 180, 116, 244,
   12, 140,  76, 204,  44, 172, 108, 236,  28, 156,  92, 220,  60, 188, 124, 252,
    2, 130,  66, 194,  34, 162,  98, 226,  18, 146,  82, 210,  50, 178, 114, 242,
   10, 138,  74, 202,  42, 170, 106, 234,  26, 154,  90, 218,  58, 186, 122, 250,
    6, 134,  70, 198,  38, 166, 102, 230,  22, 150,  86, 214,  54, 182, 118, 246,
   14, 142,  78, 206,  46, 174, 110, 238,  30, 158,  94, 222,  62, 190, 126, 254,
    1, 129,  65, 193,  33, 161,  97, 225,  17, 145,  81, 209,  49, 177, 113, 241,
    9, 137,  73, 201,  41, 169, 105, 233,  25, 153,  89, 217,  57, 185, 121, 249,
    5, 133,  69, 197,  37, 165, 101, 229,  21, 149,  85, 213,  53, 181, 117, 245,
   13, 141,  77, 205,  45, 173, 109, 237,  29, 157,  93, 221,  61, 189, 125, 253,
    3, 131,  67, 195,  35, 163,  99, 227,  19, 147,  83, 211,  51, 179, 115, 243,
   11, 139,  75, 203,  43, 171, 107, 235,  27, 155,  91, 219,  59, 187, 123, 251,
    7, 135,  71, 199,  39, 167, 103, 231,  23, 151,  87, 215,  55, 183, 119, 247,
   15, 143,  79, 207,  47, 175, 111, 239,  31, 159,  95, 223,  63, 191, 127, 255 >>

\* Mutant: 0 comes before 1.
digit_to_hid_ordered(c) == c - 19

\* The numbers in ascii_to_hid: the key of 0 comes after the one of 9.
digit_to_hid(c) == IF c = 48 THEN 39 ELSE c - 19

\* ascii_to_hid of bt_hid_tools.c, -1 for a character without a key.
ascii_to_hid(c) ==
  CASE c \in 32..47 -> <<44, 30, 52, 32, 33, 34, 36, 52, 38, 39, 37, 46, 54, 45, 55, 56>>[c - 31]
    [] c \in 48..57 -> digit_to_hid(c)
    [] c \in 58..64 -> <<51, 51, 54, 46, 55, 56, 31>>[c - 57]
    [] c \in 65..90 -> c - 61
    [] c \in 91..96 -> <<47, 49, 48, 35, 45, 53>>[c - 90]
    [] c \in 97..122 -> c - 93
    [] c \in 123..127 -> <<47, 49, 48, 53, 76>>[c - 122]
    [] OTHER -> -1

FirstByte == x = 0
NextByte == x < 255 /\ x' = x + 1

-----------------------------------------------------------------------------
\* The table reverses the bits of every byte, so it undoes the order in which
\* dev_to_host_serve_falling_clk shifts them in, and odd_parity_check's
\* three xor-shifts compute the parity of the number of ones.
BitTricksAreExact ==
  /\ ToByte(bit_reverse_table[x + 1]) = reverse(ToByte(x))
  /\ odd_parity_check(ToByte(x)) = OnesParity(ToByte(x))

\* Every scan code names a usage that the report map declares (at most 167) or
\* none at all, and no two codes of the same kind name the same key: a release
\* cannot be taken for that of another key.  Only the keypad's Enter shares its
\* usage with a plain key.  The four plain modifiers have one bit each.
KeymapIsConsistent ==
  LET key == ps2_scan_code_to_usb_hid_key[x]
      ext == ps2_extended_code_to_hid_key[x]
  IN  /\ x # 255 /\ key # KEY_UNKNOWN =>
           IF x \in ModCodes
             THEN \A y \in ModCodes \ {x} :
                    \E k \in 0..7 : /\ key = 2^k
                                    /\ ps2_scan_code_to_usb_hid_key[y] # 2^k
             ELSE /\ key <= LogicalMaximum
                  /\ \A y \in (0..254) \ (ModCodes \cup {x}) :
                       ps2_scan_code_to_usb_hid_key[y] # key
      /\ ext # KEY_UNKNOWN /\ ext \notin ExtModKeys =>
           /\ ext <= LogicalMaximum
           /\ \A y \in (0..255) \ {x} : ps2_extended_code_to_hid_key[y] # ext
           /\ ext # KEY_ENTER =>
                \A y \in (0..254) \ ModCodes : ps2_scan_code_to_usb_hid_key[y] # ext

\* The characters on each key, from the comments of usb_hid_keys.h.
Keycaps(usage) ==
  LET signs == <<<<49, 33>>, <<50, 64>>, <<51, 35>>, <<52, 36>>, <<53, 37>>, <<54, 94>>,
                 <<55, 38>>, <<56, 42>>, <<57, 40>>, <<48, 41>>>>
      marks == <<<<45, 95>>, <<61, 43>>, <<91, 123>>, <<93, 125>>, <<92, 124>>, <<>>,
                 <<59, 58>>, <<39, 34>>, <<96, 126>>, <<44, 60>>, <<46, 62>>, <<47, 63>>>>
      On(caps) == {caps[k] : k \in DOMAIN caps}
  IN  CASE usage \in 4..29 -> {usage + 61, usage + 93}
        [] usage \in 30..39 -> On(signs[usage - 29])
        [] usage = 44 -> {32}
        [] usage \in 45..56 -> On(marks[usage - 44])
        [] usage = 76 -> {127}
        [] OTHER -> {}

\* keyboard_print types a character on the key that carries it: every printable
\* character has one, and no other byte is taken for a key.
AsciiNamesItsKey ==
  IF x \in 32..127 THEN x \in Keycaps(ascii_to_hid(x)) ELSE ascii_to_hid(x) = -1
=============================================================================
