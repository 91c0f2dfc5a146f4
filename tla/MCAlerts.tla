------------------------------ MODULE MCAlerts ------------------------------
(* A small instance of IncomingAlerts: two calls, two bundled ringtones, and   *)
(* every setting.                                                              *)
EXTENDS IncomingAlerts

MCSettings == [notifications: BOOLEAN, ringtone: BOOLEAN,
               builtin: Bundled \cup {"unknown"}, custom: BOOLEAN]
=============================================================================
