------------------------------- MODULE MCHog --------------------------------
(* No key, or one in each part. *)
EXTENDS Hog

CONSTANTS key1, key2

PasskeyOnly == {<<FALSE, TRUE>>}
BothParts == {<<NoKey, NoKey>>, <<key1, key2>>}
=============================================================================
