------------------------------ MODULE Gatekeeper ------------------------------
(***************************************************************************)
(* The gate of a node: what stands between a received file and the         *)
(* pipeline (engine.Ingest), while companies publish their keys in the     *)
(* shared directory and a terminal command writes to the same diary.       *)
(*                                                                         *)
(* The sender is looked up twice: by Ingest (or ReprocessInbound) for the  *)
(* signature of the file, and once more by continuePipeline, which drops   *)
(* the error and checks the signature of the rulebook with whatever key it *)
(* got.  With none, sign.Verify panics.                                    *)
(***************************************************************************)
EXTENDS Audit, Directory

CONSTANTS Serve, Terminal,   \* the processes that write the diary
          Messages,          \* files that arrive
          From,              \* their senders
          Complete           \* those that carry a rulebook

ASSUME WritersAssumption == Writers = {Serve, Terminal} /\ Serve # Terminal
ASSUME EventsAssumption == Events = {"refused", "reprocessed", "decision"}
ASSUME MailAssumption == From \in [Messages -> Companies] /\ Complete \subseteq Messages

VARIABLES signed,     \* the key each file is signed with, 0 while it is not sent
          fate,       \* what has become of it
          server,     \* where the server of the node is
          glimpsed    \* somebody was looked up while the file could not be read

gateVars == <<signed, fate, server, glimpsed>>
vars == <<auditVars, directoryVars, gateVars>>

(* Everything but "none" is archived; "passing" is in continuePipeline,    *)
(* "dropped" is nowhere else.                                              *)
Fates == {"none", "passing", "accepted", "quarantined", "dropped"}

(* At work on a file the heartbeat collected, a partner pushed or somebody *)
(* at the console had collected or wants checked again.  A panic ends the  *)
(* process from the heartbeat ("down"); from a handler it does not, but    *)
(* the console's has the mutex locked and no defer to unlock it ("stuck"). *)
AtWork == [step : {"work"}, file : Messages, for : {"heartbeat", "push", "console"}]
Idle == [step |-> "idle"]
Stuck == [step |-> "stuck"]
Down == [step |-> "down"]

TypeOK == /\ AuditTypeOK /\ DirectoryTypeOK
          /\ signed \in [Messages -> Keys]
          /\ fate \in [Messages -> Fates]
          /\ server \in AtWork \cup {Idle, Stuck, Down}
          /\ glimpsed \in BOOLEAN

Init == /\ AuditInit /\ DirectoryInit
        /\ signed = [m \in Messages |-> 0]
        /\ fate = [m \in Messages |-> "none"]
        /\ server = Idle
        /\ glimpsed = FALSE

-----------------------------------------------------------------------------
(* A partner that is not just initialising sends a file. *)
SendFile(m) ==
    LET c == From[m] IN
    /\ signed[m] = 0 /\ init[c] = "idle" /\ key[c] # 0
    /\ signed' = [signed EXCEPT ![m] = key[c]]
    /\ UNCHANGED <<auditVars, directoryVars, fate, server, glimpsed>>

(* One operation at a time, under the mutex of the server. *)
Free == server = Idle /\ append[Serve] = NoAppend

Verifies(m) == LookUp(From[m]) = signed[m]
LooksUp(m) == glimpsed' = (glimpsed \/ ~CanOpen)

(* Mutant: the fate is called what the diary calls it. *)
Refuse(m) == /\ fate' = [fate EXCEPT ![m] = "refused"]
             /\ BeginAppend(Serve, "refused")

(* Quarantine: the file, the reason, a line in the diary. *)
Quarantine(m) == /\ fate' = [fate EXCEPT ![m] = "quarantined"]
                 /\ BeginAppend(Serve, "refused")

Ingest(m) ==
    /\ Free /\ signed[m] # 0 /\ fate[m] = "none"
    /\ LooksUp(m)
    /\ IF Verifies(m)
       THEN /\ fate' = [fate EXCEPT ![m] = "passing"]
            /\ \E by \in {"heartbeat", "push", "console"} :
                   server' = [step |-> "work", file |-> m, for |-> by]
            /\ UNCHANGED auditVars
       ELSE Quarantine(m) /\ UNCHANGED server
    /\ UNCHANGED <<directoryVars, signed>>

(* ReprocessInbound: for a file that no longer verifies there is an error  *)
(* and nothing else.                                                       *)
ReprocessInbound(m) ==
    /\ Free /\ fate[m] \in {"accepted", "quarantined", "dropped"}
    /\ Verifies(m)
    /\ fate' = [fate EXCEPT ![m] = "passing"]
    /\ server' = [step |-> "work", file |-> m, for |-> "console"]
    /\ BeginAppend(Serve, "reprocessed")
    /\ UNCHANGED <<directoryVars, signed, glimpsed>>

(* continuePipeline, up to the publisher's signature.  What follows is in  *)
(* ChangesDesk.                                                            *)
Pipeline(m) == server.step = "work" /\ server.file = m /\ append[Serve] = NoAppend

Passes(m) ==
    /\ Pipeline(m) /\ LooksUp(m)
    /\ Verifies(m) \/ m \notin Complete
    /\ fate' = [fate EXCEPT ![m] = "accepted"]
    /\ server' = Idle
    /\ UNCHANGED <<auditVars, directoryVars, signed>>

PublisherFails(m) ==
    /\ Pipeline(m) /\ LooksUp(m)
    /\ m \in Complete /\ LookUp(From[m]) \notin {0, signed[m]}
    /\ Quarantine(m)
    /\ server' = Idle
    /\ UNCHANGED <<directoryVars, signed>>

Panics(m) ==
    /\ Pipeline(m) /\ LooksUp(m)
    /\ m \in Complete /\ LookUp(From[m]) = 0
    /\ fate' = [fate EXCEPT ![m] = "dropped"]
    /\ server' = CASE server.for = "console" -> Stuck
                   [] server.for = "heartbeat" -> Down
                   [] OTHER -> Idle
    /\ UNCHANGED <<auditVars, directoryVars, signed>>

(* The server is started again; engine.Open reads the directory.  Whoever  *)
(* finds it stuck has to kill it first.                                    *)
StartAgain ==
    /\ server \in {Stuck, Down} /\ CanOpen
    /\ server' = Idle
    /\ UNCHANGED <<auditVars, directoryVars, signed, fate, glimpsed>>

(* A decision is recorded from the terminal, in a process of its own. *)
Decide == BeginAppend(Terminal, "decision") /\ UNCHANGED <<directoryVars, gateVars>>

(* A panic or a kill in the middle of an Append is left to the terminal.   *)
WriteDiary(w) == /\ \/ WriteLine(w) \/ WriteIsCutShort(w)
                    \/ w = Terminal /\ AppendDies(w)
                 /\ UNCHANGED <<directoryVars, gateVars>>

Next == \/ \E m \in Messages : \/ SendFile(m) \/ Ingest(m) \/ ReprocessInbound(m)
                               \/ Passes(m) \/ PublisherFails(m) \/ Panics(m)
        \/ StartAgain \/ Decide
        \/ \E w \in Writers : WriteDiary(w)
        \/ Edit /\ UNCHANGED <<directoryVars, gateVars>>
        \/ \E c \in Companies : Initialise(c) /\ UNCHANGED <<auditVars, gateVars>>

Spec == Init /\ [][Next]_vars

-----------------------------------------------------------------------------
(* A file that its sender signed with the key it is listed with is neither *)
(* refused nor dropped, and does not stop the server - unless inits ran    *)
(* into each other or somebody was looked up in the middle of a rewrite.   *)
GenuineIsAccepted ==
    clash \/ glimpsed \/
    /\ \A m \in Messages : signed[m] # 0 /\ signed[m] = listed[From[m]]
                              => fate[m] \notin {"quarantined", "dropped"}
    /\ server \notin {Stuck, Down}
=============================================================================
