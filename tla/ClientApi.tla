------------------------------ MODULE ClientApi ------------------------------
(***************************************************************************)
(* ClientApi (src/src/net/clientapi.cpp), the client's only way to the     *)
(* server: one TCP connection, opened once when the program starts and by  *)
(* nobody again, requests numbered in the order they are made, and answers *)
(* given to whatever page is connected to the signal of their type.        *)
(*                                                                         *)
(* Each request is a 4-byte length and a JSON body, and onReadyRead takes  *)
(* every complete one out of its buffer; here a message is a unit, and     *)
(* taking several in one call is taking them one after the other, as no    *)
(* page changes its behaviour in between.  The server sends no malformed   *)
(* or oversized answer, so the branches for these are not modelled.        *)
(***************************************************************************)
EXTENDS Integers, Sequences

CONSTANT
  SendsToken  \* requests carry the token of the login; in the code they do not

ASSUME ApiAssumption == SendsToken \in BOOLEAN

VARIABLES
  link,          \* the state of m_socket
  token,         \* m_token
  nextRequestId, \* m_nextRequestId
  wire,          \* requests on their way to the server
  inbound        \* answers on their way from it

api == <<link, token, nextRequestId, wire, inbound>>

ApiInit ==
  /\ link = "connecting"
  /\ token = ""
  /\ nextRequestId = 1
  /\ wire = <<>>
  /\ inbound = <<>>

IsConnected == link = "up"

\* connectToHost succeeds, or errorOccurred is emitted.
Connected == link = "connecting" /\ link' = "up"

\* The answers are lost.  What was sent is served or, as nothing says that
\* the server goes on, not.
Disconnected ==
  /\ link \in {"connecting", "up"}
  /\ link' = "down"
  /\ inbound' = <<>>
  /\ UNCHANGED <<token, nextRequestId, wire>>

\* Bug: every request of a batch gets the same number, and the next one too.
SendSameId(requests) ==
  /\ IsConnected
  /\ wire' = wire \o [i \in DOMAIN requests |->
                        [id |-> nextRequestId, type |-> requests[i].type,
                         about |-> requests[i].about, token |-> token]]
  /\ UNCHANGED nextRequestId

\* makeRequest and sendJson.  Every caller has looked at IsConnected before.
Send(requests) ==
  /\ IsConnected
  /\ wire' = wire \o [i \in DOMAIN requests |->
                        [id |-> nextRequestId + i - 1,
                         type |-> requests[i].type,
                         about |-> requests[i].about, token |-> token]]
  /\ nextRequestId' = nextRequestId + Len(requests)

\* The number the last of so many requests will have.
LastId(count) == nextRequestId + count - 1

\* The answer to a login brings a token, which is m_token's to keep.
Keep(ok) == token' = IF SendsToken /\ ok THEN "given" ELSE token

\* onReadyRead takes the next answer; handleResponse goes by its type.
Arrived(type) == inbound # <<>> /\ Head(inbound).type = type

Taken == inbound' = Tail(inbound) /\ UNCHANGED link
=============================================================================
