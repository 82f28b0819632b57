--------------------------- MODULE GatekeeperProofs ---------------------------
(***************************************************************************)
(* Proofs about Gatekeeper, for every set of companies, messages, writers  *)
(* and events.  The diary and the directory are taken from their own       *)
(* modules: every step of the node is a step of each of them or leaves it  *)
(* alone.  On top of that, a file is signed before a later key of its      *)
(* sender is listed, so that what was rightly refused stays so.            *)
(***************************************************************************)
EXTENDS Gatekeeper, AuditProofs, DirectoryProofs

USE WritersAssumption, EventsAssumption, MailAssumption

(* Every step is one of the diary, or beside it. *)
LEMMA StepOfTheDiary == [Next]_vars => AuditStep \/ UNCHANGED auditVars
<1> SUFFICES ASSUME [Next]_vars PROVE AuditStep \/ UNCHANGED auditVars
  OBVIOUS
<1> USE DEF AuditStep
<1>1. ASSUME NEW w \in Writers, NEW event \in Events, BeginAppend(w, event) PROVE AuditStep
  BY <1>1
<1>2. ASSUME NEW m \in Messages, Ingest(m) PROVE AuditStep \/ UNCHANGED auditVars
  BY <1>1, <1>2 DEF Ingest, Quarantine
<1>3. ASSUME NEW m \in Messages, ReprocessInbound(m) \/ PublisherFails(m) PROVE AuditStep
  BY <1>1, <1>3 DEF ReprocessInbound, PublisherFails, Quarantine
<1>4. ASSUME NEW m \in Messages, SendFile(m) \/ Passes(m) \/ Panics(m) PROVE UNCHANGED auditVars
  BY <1>4 DEF SendFile, Passes, Panics
<1>5. CASE StartAgain \/ \E c \in Companies : Initialise(c) /\ UNCHANGED <<auditVars, gateVars>>
  BY <1>5 DEF StartAgain
<1>6. CASE Decide
  BY <1>1, <1>6 DEF Decide
<1>7. ASSUME NEW w \in Writers, WriteDiary(w) PROVE AuditStep
  BY <1>7 DEF WriteDiary
<1>8. CASE UNCHANGED vars
  BY <1>8 DEF vars
<1> QED
  BY <1>2, <1>3, <1>4, <1>5, <1>6, <1>7, <1>8 DEF Next

(* Every step is one of the directory, or beside it. *)
LEMMA StepOfTheDirectory == [Next]_vars => DirectoryStep \/ UNCHANGED directoryVars
<1> SUFFICES ASSUME [Next]_vars PROVE DirectoryStep \/ UNCHANGED directoryVars
  OBVIOUS
<1>1. ASSUME NEW m \in Messages,
             SendFile(m) \/ Ingest(m) \/ ReprocessInbound(m) \/ Passes(m) \/ PublisherFails(m) \/ Panics(m)
      PROVE  UNCHANGED directoryVars
  BY <1>1 DEF SendFile, Ingest, ReprocessInbound, Passes, PublisherFails, Panics
<1>2. CASE StartAgain \/ Decide \/ (Edit /\ UNCHANGED <<directoryVars, gateVars>>)
  BY <1>2 DEF StartAgain, Decide
<1>3. ASSUME NEW w \in Writers, WriteDiary(w) PROVE UNCHANGED directoryVars
  BY <1>3 DEF WriteDiary
<1>4. CASE UNCHANGED vars
  BY <1>4 DEF vars
<1> QED
  BY <1>1, <1>2, <1>3, <1>4 DEF Next, DirectoryStep

-----------------------------------------------------------------------------
(* The gate. *)

GateTypeOK == /\ signed \in [Messages -> Keys]
              /\ fate \in [Messages -> Fates]
              /\ server \in AtWork \cup {Idle, Stuck, Down}
              /\ glimpsed \in BOOLEAN

(* A file is signed with a key of its sender, and with an earlier one than *)
(* the sender is about to publish.                                         *)
SignedBefore == \A m \in Messages :
    /\ signed[m] <= key[From[m]]
    /\ init[From[m]] # "idle" => signed[m] < key[From[m]]

(* Only what was sent has arrived. *)
ReceivedIsSigned == /\ \A m \in Messages : fate[m] # "none" => signed[m] # 0
                    /\ server.step = "work" => signed[server.file] # 0

(* The server is at work on what a listed company sent. *)
WorksOnListed == server.step = "work" => listed[From[server.file]] # 0

GateInv == /\ AuditInv /\ DirectoryInv /\ GateTypeOK
           /\ SignedBefore /\ ReceivedIsSigned
           /\ clash \/ glimpsed \/ WorksOnListed
           /\ GenuineIsAccepted

(* How far the server is. *)
LEMMA ServerSteps ==
    ASSUME server \in AtWork \cup {Idle, Stuck, Down}
    PROVE  /\ server.step = "work" => server \in AtWork /\ server.file \in Messages
           /\ server \in AtWork => server.step = "work" /\ server \notin {Stuck, Down}
           /\ server = Idle => server.step # "work" /\ server \notin {Stuck, Down}
BY DEF AtWork, Idle, Stuck, Down

(* A node at rest. *)
LEMMA GateInit == Init => GateInv
<1> SUFFICES ASSUME Init PROVE GateInv
  OBVIOUS
<1>1. AuditInv /\ DirectoryInv
  BY AuditInitInv, DirectoryInitInv DEF Init
<1>2. GateTypeOK
  BY DEF Init, GateTypeOK, Keys, Fates
<1>3. server.step # "work" /\ server \notin {Stuck, Down}
  BY DEF Init, Idle, Stuck, Down
<1>4. SignedBefore
  BY DEF Init, DirectoryInit, SignedBefore, NoBook
<1>5. ReceivedIsSigned /\ WorksOnListed /\ GenuineIsAccepted
  BY <1>3 DEF Init, ReceivedIsSigned, WorksOnListed, GenuineIsAccepted
<1> QED
  BY <1>1, <1>2, <1>4, <1>5 DEF GateInv

(* Who is looked up while the file can be read is found as listed. *)
LEMMA LooksUpListed ==
    ASSUME GateInv, NEW m \in Messages, LooksUp(m), ~clash, ~glimpsed'
    PROVE  ~glimpsed /\ LookUp(From[m]) = listed[From[m]]
BY DEF LooksUp, LookUp, GateInv, DirectoryInv, Undisputed

(* A genuine file verifies if it is found as listed. *)
LEMMA WhatVerifies ==
    ASSUME GateInv, NEW m \in Messages, signed[m] # 0, Verifies(m), ~clash
    PROVE  listed[From[m]] = signed[m]
BY DEF Verifies, LookUp, GateInv, DirectoryInv, Undisputed

(* Steps of the gate that leave the directory alone. *)
LEMMA GateStep ==
    ASSUME GateInv, GateTypeOK', UNCHANGED directoryVars, AuditInv',
           SignedBefore', ReceivedIsSigned',
           ~clash /\ ~glimpsed' =>
             /\ ~glimpsed
             /\ WorksOnListed'
             /\ server' \notin {Stuck, Down}
             /\ \A m \in Messages : signed'[m] # 0 /\ signed'[m] = listed[From[m]]
                   => fate'[m] \notin {"quarantined", "dropped"}
    PROVE  GateInv'
<1>1. DirectoryInv'
  BY DirectoryStepInv DEF GateInv
<1>2. clash' = clash /\ listed' = listed
  BY DEF directoryVars
<1> QED
  BY <1>1, <1>2 DEF GateInv, GenuineIsAccepted

(* A partner sends. *)
LEMMA SendKeeps ==
    ASSUME GateInv, NEW m \in Messages, SendFile(m)
    PROVE  GateInv'
<1>1. /\ signed[m] = 0 /\ init[From[m]] = "idle" /\ signed' = [signed EXCEPT ![m] = key[From[m]]]
      /\ UNCHANGED <<auditVars, directoryVars, fate, server, glimpsed>>
      /\ key[From[m]] # 0
  BY DEF SendFile
<1>2. /\ signed \in [Messages -> Keys] /\ fate \in [Messages -> Fates] /\ key \in Books
      /\ server \in AtWork \cup {Idle, Stuck, Down} /\ init \in [Companies -> InitSteps]
  BY DEF GateInv, GateTypeOK, DirectoryInv, DirectoryTypeOK
<1>3. From[m] \in Companies /\ key[From[m]] \in Keys
  BY <1>2 DEF Books
<1>4. GateTypeOK'
  BY <1>1, <1>2, <1>3 DEF GateInv, GateTypeOK
<1>5. SignedBefore'
  BY <1>1, <1>2, <1>3 DEF GateInv, SignedBefore, directoryVars, Keys
<1>6. ReceivedIsSigned'
  BY <1>1, <1>2, ServerSteps DEF GateInv, ReceivedIsSigned
<1>7. fate[m] = "none"
  BY <1>1 DEF GateInv, ReceivedIsSigned
<1>8. ASSUME ~clash, ~glimpsed'
      PROVE  /\ ~glimpsed /\ WorksOnListed' /\ server' \notin {Stuck, Down}
             /\ \A n \in Messages : signed'[n] # 0 /\ signed'[n] = listed[From[n]]
                   => fate'[n] \notin {"quarantined", "dropped"}
  BY <1>1, <1>2, <1>7, <1>8 DEF GateInv, GenuineIsAccepted, WorksOnListed, directoryVars
<1>9. AuditInv'
  BY <1>1, AuditStepInv DEF GateInv
<1> QED
  BY <1>1, <1>4, <1>5, <1>6, <1>8, <1>9, GateStep

(* The gate takes up a file m, or lets go of one. *)
LEMMA FateStep ==
    ASSUME GateInv, AuditInv', NEW m \in Messages, NEW f \in Fates, NEW s \in AtWork \cup {Idle, Stuck, Down},
           UNCHANGED <<directoryVars, signed>>,
           fate' = [fate EXCEPT ![m] = f], server' = s, glimpsed' \in BOOLEAN,
           signed[m] # 0,
           s.step = "work" => s.file = m,
           ~clash /\ ~glimpsed' =>
             /\ ~glimpsed
             /\ s \notin {Stuck, Down}
             /\ s.step = "work" => listed[From[m]] # 0
             /\ signed[m] = listed[From[m]] => f \notin {"quarantined", "dropped"}
    PROVE  GateInv'
<1>1. /\ signed \in [Messages -> Keys] /\ fate \in [Messages -> Fates]
  BY DEF GateInv, GateTypeOK
<1>2. fate' \in [Messages -> Fates] /\ fate'[m] = f /\ \A n \in Messages : n # m => fate'[n] = fate[n]
  BY <1>1
<1>3. GateTypeOK'
  BY <1>1, <1>2 DEF GateTypeOK
<1>4. SignedBefore'
  BY DEF GateInv, SignedBefore, directoryVars
<1>5. ReceivedIsSigned'
  BY <1>2 DEF GateInv, ReceivedIsSigned
<1>6. listed' = listed
  BY DEF directoryVars
<1>7. ASSUME ~clash, ~glimpsed'
      PROVE  /\ ~glimpsed /\ WorksOnListed' /\ server' \notin {Stuck, Down}
             /\ \A n \in Messages : signed'[n] # 0 /\ signed'[n] = listed[From[n]]
                   => fate'[n] \notin {"quarantined", "dropped"}
  BY <1>2, <1>6, <1>7 DEF GateInv, GenuineIsAccepted, WorksOnListed
<1> QED
  BY <1>3, <1>4, <1>5, <1>7, GateStep

(* Looking up says whether somebody was seen or not. *)
LEMMA LooksUpType ==
    ASSUME GateInv, NEW m \in Messages, LooksUp(m)
    PROVE  glimpsed' \in BOOLEAN
BY DEF LooksUp, GateInv, GateTypeOK

(* Ingest lets a file pass or quarantines it. *)
LEMMA IngestKeeps ==
    ASSUME GateInv, AuditInv', NEW m \in Messages, Ingest(m)
    PROVE  GateInv'
<1>1. /\ signed[m] # 0 /\ LooksUp(m) /\ server = Idle
      /\ UNCHANGED <<directoryVars, signed>>
  BY DEF Ingest, Free
<1>2. glimpsed' \in BOOLEAN
  BY <1>1, LooksUpType
<1>3. CASE Verifies(m)
  <2>1. fate' = [fate EXCEPT ![m] = "passing"]
    BY <1>3 DEF Ingest
  <2>2. PICK by \in {"heartbeat", "push", "console"} :
          server' = [step |-> "work", file |-> m, for |-> by]
    BY <1>3 DEF Ingest
  <2> DEFINE s == [step |-> "work", file |-> m, for |-> by]
  <2>3. s \in AtWork /\ s.step = "work" /\ s.file = m /\ s \notin {Stuck, Down}
    BY DEF AtWork, Stuck, Down
  <2>4. "passing" \in Fates
    BY DEF Fates
  <2> HIDE DEF s
  <2>5. ASSUME ~clash, ~glimpsed'
        PROVE  ~glimpsed /\ listed[From[m]] # 0
    BY <1>1, <1>3, <2>5, LooksUpListed, WhatVerifies
  <2> QED
    BY <1>1, <1>2, <2>1, <2>2, <2>3, <2>4, <2>5, FateStep DEF s
<1>4. CASE ~Verifies(m)
  <2>1. fate' = [fate EXCEPT ![m] = "quarantined"] /\ server' = Idle
    BY <1>1, <1>4 DEF Ingest, Quarantine
  <2>2. "quarantined" \in Fates /\ Idle.step # "work" /\ Idle \notin {Stuck, Down}
    BY DEF Fates, Idle, Stuck, Down
  <2>3. ASSUME ~clash, ~glimpsed'
        PROVE  ~glimpsed /\ signed[m] # listed[From[m]]
    BY <1>1, <1>4, <2>3, LooksUpListed DEF Verifies
  <2> QED
    BY <1>1, <1>2, <2>1, <2>2, <2>3, FateStep
<1> QED
  BY <1>3, <1>4

(* A file that is checked once more. *)
LEMMA ReprocessKeeps ==
    ASSUME GateInv, AuditInv', NEW m \in Messages, ReprocessInbound(m)
    PROVE  GateInv'
<1>1. /\ Verifies(m) /\ UNCHANGED <<directoryVars, signed, glimpsed>>
      /\ fate[m] \in {"accepted", "quarantined", "dropped"}
      /\ fate' = [fate EXCEPT ![m] = "passing"]
      /\ server' = [step |-> "work", file |-> m, for |-> "console"]
  BY DEF ReprocessInbound
<1> DEFINE s == [step |-> "work", file |-> m, for |-> "console"]
<1>2. s \in AtWork /\ s.step = "work" /\ s.file = m /\ s \notin {Stuck, Down}
  BY DEF AtWork, Stuck, Down
<1>3. signed[m] # 0 /\ "passing" \in Fates /\ glimpsed' \in BOOLEAN
  BY <1>1 DEF GateInv, ReceivedIsSigned, Fates, GateTypeOK
<1> HIDE DEF s
<1>4. ~clash => listed[From[m]] # 0
  BY <1>1, <1>3, WhatVerifies
<1> QED
  BY <1>1, <1>2, <1>3, <1>4, FateStep DEF s

(* The end of the gate: accepted, quarantined or, with no key, dropped. *)
LEMMA PipelineKeeps ==
    ASSUME GateInv, AuditInv', NEW m \in Messages, Passes(m) \/ PublisherFails(m) \/ Panics(m)
    PROVE  GateInv'
<1>1. Pipeline(m) /\ LooksUp(m) /\ UNCHANGED <<directoryVars, signed>>
  BY DEF Passes, PublisherFails, Panics
<1>2. server.step = "work" /\ server.file = m /\ signed[m] # 0
  BY <1>1 DEF Pipeline, GateInv, ReceivedIsSigned
<1>3. glimpsed' \in BOOLEAN
  BY <1>1, LooksUpType
<1>4. {"accepted", "quarantined", "dropped"} \subseteq Fates /\ Idle.step # "work"
      /\ Idle \notin {Stuck, Down} /\ Stuck.step # "work" /\ Down.step # "work"
  BY DEF Fates, Idle, Stuck, Down
<1>5. ASSUME ~clash, ~glimpsed'
      PROVE  ~glimpsed /\ LookUp(From[m]) = listed[From[m]] /\ listed[From[m]] # 0
  BY <1>1, <1>2, <1>5, LooksUpListed DEF GateInv, WorksOnListed
<1>6. CASE Passes(m)
  <2>1. fate' = [fate EXCEPT ![m] = "accepted"] /\ server' = Idle
    BY <1>6 DEF Passes
  <2> QED
    BY <1>1, <1>2, <1>3, <1>4, <1>5, <2>1, FateStep
<1>7. CASE PublisherFails(m)
  <2>1. /\ fate' = [fate EXCEPT ![m] = "quarantined"] /\ server' = Idle
        /\ LookUp(From[m]) # signed[m]
    BY <1>7 DEF PublisherFails, Quarantine
  <2> QED
    BY <1>1, <1>2, <1>3, <1>4, <1>5, <2>1, FateStep
<1>8. CASE Panics(m)
  <2>1. /\ fate' = [fate EXCEPT ![m] = "dropped"] /\ server' \in {Stuck, Down, Idle}
        /\ LookUp(From[m]) = 0
    BY <1>8 DEF Panics
  <2>2. clash \/ glimpsed'
    BY <1>5, <2>1
  <2> QED
    BY <1>1, <1>2, <1>3, <1>4, <2>1, <2>2, FateStep
<1> QED
  BY <1>6, <1>7, <1>8

(* Steps of the diary, and the server started again. *)
LEMMA BesideTheGate ==
    ASSUME GateInv, AuditInv', UNCHANGED <<directoryVars, signed, fate, glimpsed>>,
           server' = server \/ server' = Idle
    PROVE  GateInv'
<1>1. Idle.step # "work" /\ Idle \notin {Stuck, Down}
  BY DEF Idle, Stuck, Down
<1>2. GateTypeOK' /\ SignedBefore'
  BY DEF GateInv, GateTypeOK, SignedBefore, directoryVars
<1>3. ReceivedIsSigned'
  BY <1>1 DEF GateInv, ReceivedIsSigned
<1>4. ~clash /\ ~glimpsed' =>
         /\ ~glimpsed /\ WorksOnListed' /\ server' \notin {Stuck, Down}
         /\ \A m \in Messages : signed'[m] # 0 /\ signed'[m] = listed[From[m]]
               => fate'[m] \notin {"quarantined", "dropped"}
  BY <1>1 DEF GateInv, GenuineIsAccepted, WorksOnListed, directoryVars
<1> QED
  BY <1>2, <1>3, <1>4, GateStep

(* An init: a key that is listed is newer than any that signed a file.     *)
LEMMA InitialiseKeeps ==
    ASSUME GateInv, AuditInv', DirectoryStep, UNCHANGED gateVars
    PROVE  GateInv'
<1>1. DirectoryInv'
  BY DirectoryStepInv DEF GateInv
<1>2. UNCHANGED <<signed, fate, server, glimpsed>>
  BY DEF gateVars
<1>3. /\ signed \in [Messages -> Nat] /\ key \in [Companies -> Nat]
      /\ server \in AtWork \cup {Idle, Stuck, Down} /\ DirectoryTypeOK
  BY DEF GateInv, GateTypeOK, DirectoryInv, DirectoryTypeOK, Books, Keys
<1>4. GateTypeOK' /\ ReceivedIsSigned'
  BY <1>2 DEF GateInv, GateTypeOK, ReceivedIsSigned
<1>5. SignedBefore'
  <2> SUFFICES ASSUME NEW m \in Messages
               PROVE  /\ signed[m] <= key'[From[m]]
                      /\ init'[From[m]] # "idle" => signed[m] < key'[From[m]]
    BY <1>2 DEF SignedBefore
  <2>1. From[m] \in Companies /\ signed[m] \in Nat /\ key[From[m]] \in Nat
    BY <1>3
  <2>2. /\ signed[m] <= key[From[m]]
        /\ init[From[m]] # "idle" => signed[m] < key[From[m]]
    BY DEF GateInv, SignedBefore
  <2> QED
    BY <1>3, <2>1, <2>2, KeysAndLists
<1>6. \A m \in Messages : listed'[From[m]] = listed[From[m]] \/ listed'[From[m]] > signed[m]
  <2> SUFFICES ASSUME NEW m \in Messages, listed'[From[m]] # listed[From[m]]
               PROVE  listed'[From[m]] > signed[m]
    OBVIOUS
  <2>1. From[m] \in Companies /\ signed[m] \in Nat /\ key[From[m]] \in Nat
    BY <1>3
  <2>2. init[From[m]] # "idle" /\ listed'[From[m]] = key[From[m]]
    BY <1>3, <2>1, KeysAndLists
  <2> QED
    BY <2>1, <2>2 DEF GateInv, SignedBefore
<1>7. clash => clash'
  <2>1. PICK c \in Companies : Initialise(c)
    BY DEF DirectoryStep
  <2> QED
    BY <1>3, KeysAndLists
<1>8. ASSUME ~clash', ~glimpsed PROVE WorksOnListed'
  <2> SUFFICES ASSUME server.step = "work" PROVE listed'[From[server.file]] # 0
    BY <1>2 DEF WorksOnListed
  <2>1. server.file \in Messages
    BY <1>3, ServerSteps
  <2>2. listed[From[server.file]] # 0
    BY <1>7, <1>8 DEF GateInv, WorksOnListed
  <2> QED
    BY <1>3, <1>6, <2>1, <2>2
<1>9. GenuineIsAccepted'
  <2> SUFFICES ASSUME ~clash', ~glimpsed
               PROVE  /\ \A m \in Messages : signed[m] # 0 /\ signed[m] = listed'[From[m]]
                           => fate[m] \notin {"quarantined", "dropped"}
                      /\ server \notin {Stuck, Down}
    BY <1>2 DEF GenuineIsAccepted
  <2>1. \A m \in Messages : signed[m] = listed'[From[m]] => listed'[From[m]] = listed[From[m]]
    BY <1>3, <1>6
  <2> QED
    BY <1>7, <2>1 DEF GateInv, GenuineIsAccepted
<1> QED
  BY <1>1, <1>2, <1>4, <1>5, <1>8, <1>9 DEF GateInv

(* Every step of the node. *)
LEMMA GateInvStep == GateInv /\ [Next]_vars => GateInv'
<1> SUFFICES ASSUME GateInv, [Next]_vars PROVE GateInv'
  OBVIOUS
<1>0. AuditInv'
  BY AuditStepInv, StepOfTheDiary DEF GateInv
<1>1. ASSUME NEW m \in Messages, SendFile(m) PROVE GateInv'
  BY <1>1, SendKeeps
<1>2. ASSUME NEW m \in Messages, Ingest(m) PROVE GateInv'
  BY <1>0, <1>2, IngestKeeps
<1>3. ASSUME NEW m \in Messages, ReprocessInbound(m) PROVE GateInv'
  BY <1>0, <1>3, ReprocessKeeps
<1>4. ASSUME NEW m \in Messages, Passes(m) \/ PublisherFails(m) \/ Panics(m) PROVE GateInv'
  BY <1>0, <1>4, PipelineKeeps
<1>5. CASE StartAgain
  BY <1>0, <1>5, BesideTheGate DEF StartAgain
<1>6. CASE Decide \/ (Edit /\ UNCHANGED <<directoryVars, gateVars>>)
  BY <1>0, <1>6, BesideTheGate DEF Decide, gateVars
<1>7. ASSUME NEW w \in Writers, WriteDiary(w) PROVE GateInv'
  BY <1>0, <1>7, BesideTheGate DEF WriteDiary, gateVars
<1>8. ASSUME NEW c \in Companies, Initialise(c), UNCHANGED <<auditVars, gateVars>> PROVE GateInv'
  BY <1>0, <1>8, InitialiseKeeps DEF DirectoryStep
<1>9. CASE UNCHANGED vars
  BY <1>0, <1>9, BesideTheGate DEF vars, gateVars
<1> QED
  BY <1>1, <1>2, <1>3, <1>4, <1>5, <1>6, <1>7, <1>8, <1>9 DEF Next

(* The invariant of a node at its gate. *)
LEMMA GateInvariant == Spec => []GateInv
<1>1. GateInv /\ UNCHANGED vars => GateInv'
  BY GateInvStep
<1> QED
  BY GateInit, GateInvStep, PTL DEF Spec

-----------------------------------------------------------------------------
(* The diary, the directory and the gate hold what their types say. *)
THEOREM GatekeeperTypeCorrect == Spec => []TypeOK
<1>1. GateInv => TypeOK
  BY DEF GateInv, AuditInv, DirectoryInv, GateTypeOK, TypeOK
<1> QED
  BY <1>1, GateInvariant, PTL

(* Whoever writes at the same time, and whatever is cut short or edited, a *)
(* diary that verifies says, line by line, what was recorded.              *)
THEOREM TheDiaryCannotLie == Spec => []VerifiedIsWhatWasRecorded
<1>1. GateInv => VerifiedIsWhatWasRecorded
  BY InvVerifiedIsRecorded DEF GateInv
<1> QED
  BY <1>1, GateInvariant, PTL

(* A diary fails to verify only if a line was edited or cut short, or two  *)
(* processes of the home were in Append at once.                           *)
THEOREM TheDiaryDoesNotCryWolf == Spec => []BreaksForAReason
<1>1. GateInv => BreaksForAReason
  BY InvBreaksForAReason DEF GateInv
<1> QED
  BY <1>1, GateInvariant, PTL

(* A diary that does not verify never does again by being written to. *)
THEOREM ABrokenDiaryStaysBroken == Spec => BrokenStaysBroken
<1>1. GateInv /\ [Next]_vars => [Verify(log)' => Verify(log) \/ edits' > edits]_auditVars
  BY StepOfTheDiary, BrokenStays DEF GateInv
<1> QED
  BY <1>1, GateInvariant, PTL DEF Spec, BrokenStaysBroken

(* Companies that initialise one after the other are listed with the key   *)
(* they finished with.                                                     *)
THEOREM TheListedAreOnFile == Spec => []OneAfterTheOtherIsListed
<1>1. GateInv => OneAfterTheOtherIsListed
  BY InvListed DEF GateInv
<1> QED
  BY <1>1, GateInvariant, PTL

(* A file signed with the listed key is neither refused nor dropped, and   *)
(* the server stays up, unless an init was in the way.                     *)
THEOREM TheGenuineIsAccepted == Spec => []GenuineIsAccepted
<1>1. GateInv => GenuineIsAccepted
  BY DEF GateInv
<1> QED
  BY <1>1, GateInvariant, PTL
=============================================================================
