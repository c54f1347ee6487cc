----------------------------- MODULE MCSettings -----------------------------
(***************************************************************************)
(* The settings of a server, for TLC: two names, one of them written in    *)
(* two ways.                                                               *)
(***************************************************************************)
EXTENDS CoreCfg

SettingNames == {<<"ip", 0>>, <<"ip", 1>>, <<"port", 0>>}
=============================================================================
