------------------------ MODULE MCUpgradedConnection ------------------------
(***************************************************************************)
(* Clients of plain HTTP with two methods, of TLS, and of something else.  *)
(***************************************************************************)
EXTENDS UpgradedConnection

MCByte == {"G", "E", "T", " ", "P", "U", "/", "0x16", "0x03", "0x01", "?"}

MCStreams ==
  {Get \o <<"/", "?">>,
   <<"P", "U", "T", " ", "/">>,
   TlsRecord \o <<"0x01", "?", "?", "?">>,
   <<"?", "0x03", "?">>,
   <<"0x16", "?", "?">>}
=============================================================================
