---------------------------- MODULE MCForwarding ----------------------------
(***************************************************************************)
(* Small instances of Forwarding: one request for each way through         *)
(* forward; a chat, a completion whose prompt is a near duplicate of the   *)
(* chat's, and another chat that is like neither.                          *)
(***************************************************************************)
EXTENDS Forwarding

CONSTANTS t1, t2

MCCaller == {t1, t2}

Chat == [token |-> "key", json |-> TRUE, body |-> "object", route |-> "chat",
         model |-> "m", prompt |-> "user:hi", shape |-> "complete"]

MCRequest ==
  {Chat,
   [Chat EXCEPT !.route = "legacy", !.prompt = "hi"],
   [Chat EXCEPT !.prompt = "user:bye"],
   [Chat EXCEPT !.token = "other"],
   [Chat EXCEPT !.shape = "stream"],
   [Chat EXCEPT !.shape = "odd"],
   [Chat EXCEPT !.body = "undecodable"]}

Greetings == {"user:hi", "hi"}
MCSimilar == (Greetings \X Greetings) \cup {<<"user:bye", "user:bye">>}

MCKeys == {"key"}
=============================================================================
