--------------------------- MODULE MCMqttSession ---------------------------
(***************************************************************************)
(* Constants for TLC.                                                      *)
(***************************************************************************)
EXTENDS MqttSession

Qos2Publish == {<<"PUBLISH", 2>>}
MixedPublish == {<<"PUBLISH", 1>>, <<"PUBLISH", 2>>}
Exchanges == {<<"PUBLISH", 2>>, <<"SUBSCRIBE", 0>>}
Requests == {<<"SUBSCRIBE", 0>>, <<"DISCONNECT", 0>>}
=============================================================================
