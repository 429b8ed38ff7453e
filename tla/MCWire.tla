-------------------------------- MODULE MCWire --------------------------------
(***************************************************************************)
(* The commands sent in the checked instance of Wire.  With Radix = 4 a    *)
(* length word counts to 15: the text of 13 bytes and the wrapped command  *)
(* of 3 are too long for it, and their words read 0 and 4.  With blocks of *)
(* 5 bytes the wrapped commands fill their last block, or not.             *)
(***************************************************************************)
EXTENDS Wire

MCSends ==
  {<<"LOGIN", 1>>, <<"LOGOUT", 1>>, <<"PLAIN", 2>>, <<"PLAIN", 13>>,
   <<"PLAIN", 5>>, <<"UNKNOWN", 1>>,
   <<"AES", 1>>, <<"AES", 2>>, <<"AES", 3>>, <<"AESLOGOUT", 1>>}
=============================================================================
