----------------------------- MODULE FetchPort -----------------------------
(***************************************************************************)
(* What the IFU may rely on at the ICache's request/response port, and what *)
(* Core assumes of it: one request at a time; an answer only to a request  *)
(* that was not killed, and only once; the word is one that memory held at *)
(* that address since the last flush, and the error bit is set exactly     *)
(* for addresses whose block answers with an error.                        *)
(***************************************************************************)
CONSTANTS Addr, Values, Faulty(_)

VARIABLES fetch,   \* the request in progress: Idle, Busy(a) or Killed
          out,     \* the answer given at the last clock edge, or NoAnswer
          code     \* the words each address has held since the last flush

port_vars == <<fetch, out, code>>

Idle == [st |-> "idle"]
Killed == [st |-> "killed"]
Busy(a) == [st |-> "busy", addr |-> a]
NoAnswer == [valid |-> FALSE]
Answers(a) == [valid : {TRUE}, addr : {a}, data : code[a], error : {FALSE}]
ErrorAnswers(a) == [valid : {TRUE}, addr : {a}, data : Values, error : {TRUE}]

PortInit == /\ fetch = Idle
            /\ out = NoAnswer
            /\ code \in [Addr -> SUBSET Values]

\* Memory is written, or the cache is flushed, while the port works.
CodeStep == \/ \A a \in Addr : code[a] \subseteq code'[a]
            \/ \A a \in Addr : code'[a] \subseteq code[a]

Respond(a) == \/ /\ out' \in IF Faulty(a) THEN ErrorAnswers(a) ELSE Answers(a)
                 /\ fetch' = Idle
              \/ /\ out' = NoAnswer
                 /\ fetch' = Busy(a)

Request == /\ fetch = Idle
           /\ \E a \in Addr : Respond(a)

Work == /\ fetch.st = "busy"
        /\ Respond(fetch.addr)

Kill == /\ fetch' = Idle \/ (fetch # Idle /\ fetch' = Killed)
        /\ out' = NoAnswer

Drain == /\ fetch = Killed
         /\ fetch' \in {Idle, Killed}
         /\ out' = NoAnswer

PortNext == CodeStep /\ code' \in [Addr -> SUBSET Values] /\ (Request \/ Work \/ Kill \/ Drain)

PortSpec == PortInit /\ [][PortNext]_port_vars
=============================================================================
