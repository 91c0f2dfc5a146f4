------------------------------ MODULE MCPlugin ------------------------------
(* A small instance of PluginProperties: two message boxes, one account, and     *)
(* features of which Gajim has one of its own already.                         *)
EXTENDS PluginProperties

MCOwn == <<"disco", "jingle">>
MCAudio == <<"jingle", "jmi", "audio">>
=============================================================================
