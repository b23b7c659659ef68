------------------------------- MODULE Server -------------------------------
(***************************************************************************)
(* ACOS/server.c: the parent accepts a client, forks a child that answers  *)
(* it, and waits for the child.  The parent keeps every descriptor it got  *)
(* from accept(), so a client learns that its answer is complete only from *)
(* shutdown(), unless the parent ends.                                     *)
(*                                                                         *)
(* Line 50 of the file is an unfinished call, which is left out.           *)
(***************************************************************************)
EXTENDS Naturals, Sequences, FiniteSets

CONSTANTS Clients,
          Slots,      \* the length of the array client, 10 in the code
          Backlog     \* bound: how many connections the kernel keeps for accept()

(***************************************************************************)
(* What a client may ask for: a file, a directory with or without an index *)
(* page, something that does not exist, or a text that is no request, the  *)
(* empty one of a client that leaves without a word included.              *)
(***************************************************************************)
Requests == {"file", "index", "listing", "missing", "garbled"}
None == "none"

VARIABLES
  backlog,    \* the connections that wait for accept()
  sent,       \* sent[c]: the request of client c
  left,       \* the clients that have closed their end
  pc,         \* what the parent does next
  client,     \* client[k]: the array, as far as it is used
  child,      \* what the child does next
  answer,     \* answer[c]: what was written to c
  shut,       \* the connections that have been shut down
  served      \* history: the clients for which fork() has made a child

net == <<backlog, sent, left>>
vars == <<net, pc, client, child, answer, shut, served>>

Accepted == {client[k] : k \in DOMAIN client}
Current == client[Len(client)]

Init == /\ backlog = <<>> /\ sent = [c \in Clients |-> None] /\ left = {}
        /\ pc = "accept" /\ client = <<>> /\ child = None
        /\ answer = [c \in Clients |-> None] /\ shut = {} /\ served = {}
-----------------------------------------------------------------------------
Waiting == {backlog[k] : k \in DOMAIN backlog}

Connect(c) == /\ c \notin Waiting \cup Accepted /\ pc \notin {"failed", "overrun"}
              /\ Len(backlog) < Backlog
              /\ backlog' = Append(backlog, c)
              /\ UNCHANGED <<sent, left, pc, client, child, answer, shut, served>>

Send(c, r) == /\ c \in (Waiting \cup Accepted) \ left /\ sent[c] = None
              /\ sent' = [sent EXCEPT ![c] = r]
              /\ UNCHANGED <<backlog, left, pc, client, child, answer, shut, served>>

Leave(c) == /\ c \in (Waiting \cup Accepted) \ left
            /\ left' = left \cup {c}
            /\ sent' = [sent EXCEPT ![c] = IF @ = None THEN "garbled" ELSE @]
            /\ UNCHANGED <<backlog, pc, client, child, answer, shut, served>>
-----------------------------------------------------------------------------
\* accept() and what follows; client[i] is written unchecked.
Accept == /\ pc = "accept" /\ backlog # <<>>
          /\ backlog' = Tail(backlog)
          /\ IF Len(client) < Slots
             THEN client' = Append(client, Head(backlog)) /\ pc' = "fork"
             ELSE pc' = "overrun" /\ UNCHANGED client
          /\ UNCHANGED <<sent, left, child, answer, shut, served>>

\* accept() returns -1: exit(1)
AcceptFails == /\ pc = "accept"
               /\ pc' = "failed"
               /\ UNCHANGED <<net, client, child, answer, shut, served>>

\* fork(), whose failure is not noticed.
Fork == /\ pc = "fork"
        /\ pc' = "wait"
        /\ \/ child' = "recv" /\ served' = served \cup {Current}
           \/ UNCHANGED <<child, served>>
        /\ UNCHANGED <<net, client, answer, shut>>

\* A mutant: the parent waits for a child it may not have.
Wait_ForChild == /\ pc = "wait" /\ child = "zombie"
                 /\ pc' = "accept" /\ child' = None
                 /\ UNCHANGED <<net, client, answer, shut, served>>

\* wait(0) returns at once without a child; then i++.
Wait == /\ pc = "wait" /\ child \in {"zombie", None}
        /\ pc' = "accept" /\ child' = None
        /\ UNCHANGED <<net, client, answer, shut, served>>

(***************************************************************************)
(* get_rqst() blocks until there is a request or the client has left.  The *)
(* child dies of a request without a file or a host, and ends by exit(1)   *)
(* when recv() fails or nothing has the name.                              *)
(***************************************************************************)
GetRqst == /\ child = "recv" /\ sent[Current] # None
           /\ \/ child' = sent[Current] /\ sent[Current] \notin {"garbled", "missing"}
              \/ child' = "zombie" /\ sent[Current] \in {"garbled", "missing"}
              \/ child' = "zombie" /\ Current \in left
           /\ UNCHANGED <<net, pc, client, answer, shut, served>>

\* Writing to a client that has left may end the child.
Write(text) == \/ child' = "shutdown" /\ answer' = [answer EXCEPT ![Current] = text]
               \/ Current \in left /\ child' = "zombie" /\ UNCHANGED answer

(***************************************************************************)
(* send_file().  Nothing is sent of an index page.  make_html() returns    *)
(* the address of its local array: the child dies of it, after the header, *)
(* or writes whatever is there.                                            *)
(***************************************************************************)
SendFile == /\ \/ child = "file" /\ Write("file")
               \/ child = "index" /\ child' = "shutdown" /\ UNCHANGED answer
               \/ /\ child = "listing"
                  /\ \/ Write("junk")
                     \/ child' = "zombie" /\ answer' = [answer EXCEPT ![Current] = "header"]
            /\ UNCHANGED <<net, pc, client, shut, served>>

\* A mutant: a connection is shut down only if something has been written to it.
Shutdown_OnlyAnswered ==
  /\ child = "shutdown"
  /\ child' = "zombie"
  /\ shut' = IF answer[Current] = None THEN shut ELSE shut \cup {Current}
  /\ UNCHANGED <<net, pc, client, answer, served>>

\* shutdown(), close() and exit(0)
Shutdown == /\ child = "shutdown"
            /\ child' = "zombie"
            /\ shut' = shut \cup {Current}
            /\ UNCHANGED <<net, pc, client, answer, served>>

Run == Accept \/ Fork \/ Wait \/ GetRqst \/ SendFile \/ Shutdown

Next == \/ \E c \in Clients : Connect(c) \/ Leave(c) \/ \E r \in Requests : Send(c, r)
        \/ AcceptFails
        \/ Run

Spec == Init /\ [][Next]_vars

\* Parent and child run; nothing is assumed of the clients.
FairSpec == Spec /\ WF_vars(Run)
-----------------------------------------------------------------------------
\* What was written to c is what it asked for; of an index page that is nothing.
Complete(c) == \/ sent[c] = "file" /\ answer[c] = "file"
               \/ sent[c] = "index" /\ answer[c] = None
               \/ sent[c] = "listing" /\ answer[c] = "junk"

\* What a child dies of: a request that cannot be answered, or make_html().
Unanswerable(c) == \/ sent[c] \in {"missing", "garbled"} /\ answer[c] = None
                   \/ sent[c] = "listing" /\ answer[c] = "header"

\* Whether c was shut down as it should: it got what it asked for, or it could not.
Settled(c) == IF c \in shut
              THEN c \in served /\ Complete(c)
              ELSE Unanswerable(c) \/ (answer[c] = None /\ (c \notin served \/ c \in left))

(***************************************************************************)
(* A connection stays open until it is shut down, since the parent holds   *)
(* it.  When the child of a client has ended, or there is none, and the    *)
(* connection has been shut down, the client has got what it asked for.    *)
(* If not, it asked for what cannot be answered, or it got nothing at all  *)
(* because fork() failed or because it left.  Any other client sees the    *)
(* end of its answer.                                                      *)
(***************************************************************************)
AnswersEnd ==
  \A c \in Accepted : c # Current \/ child \in {"zombie", None} => Settled(c)

(***************************************************************************)
(* Clients that wait are accepted, unless the server has ended or the one  *)
(* whose turn it is says nothing for ever.                                 *)
(***************************************************************************)
Silent == child = "recv" /\ sent[Current] = None
OnlySilenceBlocks ==
  []<>~Silent => \A c \in Clients : c \in Waiting ~> c \notin Waiting \/ pc \in {"failed", "overrun"}
=============================================================================
