---------------------------- MODULE UploadPromise ----------------------------
(***************************************************************************)
(* What a resumable upload session promises its client, without staged     *)
(* objects, locks, requests or janitors: a session ends at most once, the  *)
(* file it publishes is made, chunk by chunk, of contents the client sent  *)
(* for that chunk of that session, and it has the digest the client        *)
(* declared.                                                               *)
(***************************************************************************)
CONSTANTS Session, Chunk, Data, NoFile

File == [Chunk -> Data]

VARIABLES
    phase,     \* "none", "open", "done", "skipped" or "closed"
    sent,      \* contents recorded for each chunk of a session
    declared,  \* content whose digest the client declared
    file       \* content published

vars == <<phase, sent, declared, file>>

Init ==
    /\ phase = [s \in Session |-> "none"]
    /\ sent = [s \in Session |-> {}]
    /\ declared = [s \in Session |-> NoFile]
    /\ file = [s \in Session |-> NoFile]

Open(s, d) ==
    /\ phase[s] = "none"
    /\ phase' = [phase EXCEPT ![s] = "open"]
    /\ declared' = [declared EXCEPT ![s] = d]
    /\ UNCHANGED <<sent, file>>

Declare(s, d) ==
    /\ phase[s] = "open"
    /\ declared[s] = NoFile
    /\ declared' = [declared EXCEPT ![s] = d]
    /\ UNCHANGED <<phase, sent, file>>

Send(s, c, h) ==
    /\ phase[s] = "open"
    /\ sent' = [sent EXCEPT ![s] = @ \cup {<<c, h>>}]
    /\ UNCHANGED <<phase, declared, file>>

(* The server records the digest of what it publishes.                      *)
Finish(s, f) ==
    /\ phase[s] = "open"
    /\ \A c \in Chunk : <<c, f[c]>> \in sent[s]
    /\ declared[s] \in {NoFile, f}
    /\ phase' = [phase EXCEPT ![s] = "done"]
    /\ file' = [file EXCEPT ![s] = f]
    /\ declared' = [declared EXCEPT ![s] = f]
    /\ UNCHANGED sent

(* The name is taken and the client asked to skip conflicts.                *)
Skip(s) ==
    /\ phase[s] = "open"
    /\ phase' = [phase EXCEPT ![s] = "skipped"]
    /\ UNCHANGED <<sent, declared, file>>

(* Aborted, or expired; the published file stays.                           *)
Close(s) ==
    /\ phase[s] \in {"open", "done", "skipped"}
    /\ phase' = [phase EXCEPT ![s] = "closed"]
    /\ UNCHANGED <<sent, declared, file>>

Next ==
    \E s \in Session :
        \/ \E d \in File \cup {NoFile} : Open(s, d)
        \/ \E d \in File : Declare(s, d)
        \/ \E c \in Chunk, h \in Data : Send(s, c, h)
        \/ \E f \in File : Finish(s, f)
        \/ Skip(s)
        \/ Close(s)

Spec == Init /\ [][Next]_vars
=============================================================================
