------------------------------ MODULE Dialogue ------------------------------
(***************************************************************************)
(* The dialogue that the client programs and the sessions are written for, *)
(* and that module Sessions takes for granted: whole lines and whole       *)
(* answers in turn, one answer to each line, and nothing else under way.   *)
(* Module Framing is what they make of it on a stream of bytes.            *)
(***************************************************************************)
VARIABLES
  client,   \* "new", "typing", "reading" or "gone"
  session,  \* "greet", "login", "password", "command" or "ended"
  message   \* what is under way: "none", "greeting", "line", "answer", or
            \* "both" the greeting and a line

dvars == <<client, session, message>>

Init ==
  /\ client = "new"
  /\ session = "greet"
  /\ message = "none"

Identify ==
  /\ client = "new"
  /\ client' = "typing"
  /\ message' = "greeting"
  /\ UNCHANGED session

Identified ==
  /\ session = "greet" /\ message \in {"greeting", "both"}
  /\ session' = "login"
  /\ message' = IF message = "both" THEN "line" ELSE "none"
  /\ UNCHANGED client

Ask ==
  /\ client = "typing" /\ session \notin {"greet", "ended"} /\ message = "none"
  /\ client' = "reading"
  /\ message' = "line"
  /\ UNCHANGED session

(* A line typed before the session has read the greeting.                  *)
AskEarly ==
  /\ client = "typing" /\ session = "greet" /\ message = "greeting"
  /\ client' = "reading"
  /\ message' = "both"
  /\ UNCHANGED session

(* Where a line may take the session, unless it ends by it.                *)
After ==
  CASE session = "login"    -> {"login", "password"}
    [] session = "password" -> {"login", "command"}
    [] session = "command"  -> {"command"}

Answer ==
  /\ session \notin {"greet", "ended"} /\ message = "line"
  /\ \/ session' \in After /\ message' = "answer"
     \/ session' = "ended" /\ message' = "none"
  /\ UNCHANGED client

Hear ==
  /\ client = "reading" /\ message = "answer"
  /\ client' = "typing"
  /\ message' = "none"
  /\ UNCHANGED session

(* A line to a session that has ended, and the end of the stream.          *)
AskNobody ==
  /\ client \in {"typing", "reading"} /\ session = "ended"
  /\ client' \in {"typing", "reading"}
  /\ UNCHANGED <<session, message>>

Quit ==
  /\ client \in {"typing", "reading"}
  /\ client' = "gone"
  /\ UNCHANGED <<session, message>>

End ==
  /\ client = "gone" /\ session # "ended"
  /\ session' = "ended"
  /\ message' = "none"
  /\ UNCHANGED client

Next ==
  \/ Identify \/ Identified \/ Ask \/ AskEarly \/ Answer \/ Hear
  \/ AskNobody \/ Quit \/ End

Spec == Init /\ [][Next]_dvars
=============================================================================
