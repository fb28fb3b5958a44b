--------------------------- MODULE UnaryExchange ---------------------------
(***************************************************************************)
(* What the gateway promises of one HTTP exchange, whatever router serves  *)
(* it: a request is opened, may be handed to the service (which may be     *)
(* entered again by an interceptor that retries), is answered at most once *)
(* with a document whose kind and status agree, and is closed.  A response *)
(* message is only ever the answer of a request that reached the service.  *)
(***************************************************************************)
EXTENDS Naturals

CONSTANTS Requests,     \* the HTTP requests
          MaxServes     \* bound: how often one request may enter the service

VARIABLES phase,        \* phase[r]: how far the exchange is
          served,       \* served[r]: how often the service was entered
          reply         \* reply[r]: the document the client received

vars == <<phase, served, reply>>

NoReply == [status |-> 0, doc |-> "none"]

(* The only pairs a client may see: a response message with 200, or a      *)
(* status document (or its plain text substitute) with an error status.    *)
Legal(a) == \/ a.doc = "response" /\ a.status = 200
            \/ a.doc \in {"status", "text"} /\ a.status \in 400..599

Answers == {a \in [status : {200} \cup 400..599,
                   doc : {"response", "status", "text"}] : Legal(a)}

Init == /\ phase = [r \in Requests |-> "idle"]
        /\ served = [r \in Requests |-> 0]
        /\ reply = [r \in Requests |-> NoReply]

Open(r) == /\ phase[r] = "idle"
           /\ phase' = [phase EXCEPT ![r] = "open"]
           /\ UNCHANGED <<served, reply>>

(* The request was decoded and is handed to the method.                    *)
Call(r) == /\ phase[r] = "open"
           /\ reply[r] = NoReply
           /\ phase' = [phase EXCEPT ![r] = "calling"]
           /\ served' \in {served, [served EXCEPT ![r] = 1]}
           /\ UNCHANGED reply

Serve(r) == /\ phase[r] = "calling"
            /\ reply[r] = NoReply
            /\ served[r] < MaxServes
            /\ served' = [served EXCEPT ![r] = @ + 1]
            /\ UNCHANGED <<phase, reply>>

Answer(r) == /\ phase[r] \in {"open", "calling"}
             /\ reply[r] = NoReply
             /\ \E a \in Answers :
                  /\ a.doc = "response" => phase[r] = "calling"
                  /\ reply' = [reply EXCEPT ![r] = a]
             /\ UNCHANGED <<phase, served>>

(* The exchange ends, answered or with the connection lost.                *)
Close(r) == /\ phase[r] \in {"open", "calling"}
            /\ phase' = [phase EXCEPT ![r] = "closed"]
            /\ UNCHANGED <<served, reply>>

Next == \E r \in Requests : Open(r) \/ Call(r) \/ Serve(r) \/ Answer(r) \/ Close(r)

Spec == Init /\ [][Next]_vars
=============================================================================
