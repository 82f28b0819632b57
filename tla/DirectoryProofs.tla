--------------------------- MODULE DirectoryProofs ---------------------------
(***************************************************************************)
(* Proofs about Directory, for every set of companies: as long as no init  *)
(* opens the file before another one has written it, the entry of each     *)
(* company is the key it finished its last init with.                      *)
(***************************************************************************)
EXTENDS Directory, TLAPS

USE InitsAssumption

DirectoryStep == \E c \in Companies : Initialise(c)

(* Unless inits ran into each other: the entries last written are the      *)
(* listed keys, one init at most holds entries, and those are what is on   *)
(* file, with its own key once it has merged.                              *)
OneHolds == \A c, d \in Holding : c = d
HoldsTheFile == \A c \in Companies :
    /\ init[c] = "opened" => entries[c] = file
    /\ init[c] \in {"merged", "truncated"} => entries[c] = [file EXCEPT ![c] = key[c]]
Undisputed == ~clash => file = listed /\ OneHolds /\ HoldsTheFile

DirectoryInv == DirectoryTypeOK /\ Undisputed

-----------------------------------------------------------------------------
(* A new directory is in order. *)
LEMMA DirectoryInitInv == DirectoryInit => DirectoryInv
<1> SUFFICES ASSUME DirectoryInit PROVE DirectoryInv
  OBVIOUS
<1>1. NoBook \in Books
  BY DEF NoBook, Books, Keys
<1>2. DirectoryTypeOK
  BY <1>1 DEF DirectoryInit, DirectoryTypeOK, InitSteps
<1>3. Undisputed
  BY DEF DirectoryInit, Undisputed, OneHolds, HoldsTheFile, Holding
<1> QED
  BY <1>2, <1>3 DEF DirectoryInv

(* What Publish has in memory when it has merged. *)
LEMMA MergedType ==
    ASSUME NEW c \in Companies, NEW mine \in Books, NEW fresh \in Books, key \in Books
    PROVE  Merged(c, mine, fresh) \in Books
BY DEF Merged, Books, Keys

(* Merging what is on file adds the own key and changes nothing.           *)
LEMMA MergedIsFile ==
    ASSUME NEW c \in Companies, NEW fresh \in {file, NoBook}, file \in Books
    PROVE  Merged(c, file, fresh) = [file EXCEPT ![c] = key[c]]
BY DEF Merged, Books, Keys, NoBook

(* The types of what an init does. *)
LEMMA DirectoryTypeStep ==
    ASSUME DirectoryTypeOK, NEW c \in Companies, Initialise(c)
    PROVE  DirectoryTypeOK'
<1> USE DEF DirectoryTypeOK
<1>0. NoBook \in Books
  BY DEF NoBook, Books, Keys
<1>1. CASE GenerateKey(c)
  <2>1. key' \in Books
    BY <1>1 DEF GenerateKey, Books, Keys
  <2> QED
    BY <1>1, <2>1 DEF GenerateKey, InitSteps
<1>2. CASE OpenDirectory(c)
  BY <1>2 DEF OpenDirectory, InitSteps
<1>3. CASE OpenFails(c)
  BY <1>3 DEF OpenFails, InitSteps
<1>4. CASE RereadAndMerge(c)
  <2> DEFINE fresh == IF CanOpen THEN file ELSE NoBook
  <2>1. fresh \in Books
    BY <1>0
  <2>2. Merged(c, entries[c], fresh) \in Books
    BY <2>1, MergedType
  <2>3. entries' = [entries EXCEPT ![c] = Merged(c, entries[c], fresh)]
    BY <1>4 DEF RereadAndMerge
  <2> HIDE DEF fresh
  <2>4. entries' \in [Companies -> Books]
    BY <2>2, <2>3
  <2> QED
    BY <1>4, <2>4 DEF RereadAndMerge, InitSteps
<1>5. CASE TruncateFile(c)
  BY <1>5 DEF TruncateFile, InitSteps
<1>6. CASE WriteFile(c)
  <2>1. listed' \in Books
    BY <1>6 DEF WriteFile, Books, Keys
  <2> QED
    BY <1>0, <1>6, <2>1 DEF WriteFile, InitSteps
<1>7. CASE InitDies(c)
  BY <1>0, <1>7 DEF InitDies, InitSteps
<1> QED
  BY <1>1, <1>2, <1>3, <1>4, <1>5, <1>6, <1>7 DEF Initialise

(* Who holds entries: an init that leaves "opened", "merged" and           *)
(* "truncated" alone, or leaves them, makes no new holder.                 *)
LEMMA NoNewHolder ==
    ASSUME DirectoryTypeOK, NEW c \in Companies, NEW step \in InitSteps,
           init' = [init EXCEPT ![c] = step],
           step \in {"opened", "merged", "truncated"} => c \in Holding
    PROVE  /\ Holding' \subseteq Holding
           /\ OneHolds => OneHolds'
BY DEF DirectoryTypeOK, Holding, OneHolds, InitSteps

(* Every init keeps the directory in order. *)
LEMMA UndisputedStep ==
    ASSUME DirectoryInv, NEW c \in Companies, Initialise(c)
    PROVE  Undisputed'
<1> SUFFICES ASSUME ~clash' PROVE (file = listed /\ OneHolds /\ HoldsTheFile)'
  BY DEF Undisputed
<1> USE DEF DirectoryInv
<1>0. /\ ~clash => file = listed /\ OneHolds /\ HoldsTheFile
      /\ file \in Books /\ key \in Books /\ listed \in Books
      /\ init \in [Companies -> InitSteps] /\ entries \in [Companies -> Books]
      /\ DirectoryTypeOK
  BY DEF Undisputed, DirectoryTypeOK
<1>1. CASE GenerateKey(c)
  <2>1. /\ ~clash /\ file' = file /\ listed' = listed /\ entries' = entries
        /\ init[c] = "idle" /\ init' = [init EXCEPT ![c] = "generated"]
        /\ \A d \in Companies : d # c => key'[d] = key[d]
    BY <1>0, <1>1 DEF GenerateKey, Books
  <2>2. OneHolds'
    BY <1>0, <2>1, NoNewHolder DEF InitSteps
  <2>3. HoldsTheFile'
    BY <1>0, <2>1 DEF HoldsTheFile
  <2> QED
    BY <1>0, <2>1, <2>2, <2>3
<1>2. CASE OpenDirectory(c)
  <2>1. /\ ~clash /\ Holding = {} /\ file' = file /\ listed' = listed /\ key' = key
        /\ entries' = [entries EXCEPT ![c] = file] /\ init' = [init EXCEPT ![c] = "opened"]
    BY <1>2 DEF OpenDirectory
  <2>2. \A d \in Companies : d # c => init'[d] \notin {"opened", "merged", "truncated"}
    BY <1>0, <2>1 DEF Holding
  <2>3. OneHolds'
    BY <2>2 DEF OneHolds, Holding
  <2>4. init'[c] = "opened" /\ entries'[c] = file
    BY <1>0, <2>1
  <2>5. HoldsTheFile'
    BY <2>1, <2>2, <2>4 DEF HoldsTheFile
  <2> QED
    BY <1>0, <2>1, <2>3, <2>5
<1>3. CASE OpenFails(c)
  <2>1. /\ ~clash /\ file' = file /\ listed' = listed /\ entries' = entries /\ key' = key
        /\ init' = [init EXCEPT ![c] = "idle"]
    BY <1>3 DEF OpenFails
  <2>2. OneHolds'
    BY <1>0, <2>1, NoNewHolder DEF InitSteps
  <2>3. HoldsTheFile'
    BY <1>0, <2>1 DEF HoldsTheFile
  <2> QED
    BY <1>0, <2>1, <2>2, <2>3
<1>4. CASE RereadAndMerge(c)
  <2> DEFINE fresh == IF CanOpen THEN file ELSE NoBook
  <2>1. /\ ~clash /\ file' = file /\ listed' = listed /\ key' = key /\ init[c] = "opened"
        /\ entries' = [entries EXCEPT ![c] = Merged(c, entries[c], fresh)]
        /\ init' = [init EXCEPT ![c] = "merged"]
    BY <1>4 DEF RereadAndMerge
  <2>2. entries[c] = file
    BY <1>0, <2>1 DEF HoldsTheFile
  <2>3. Merged(c, entries[c], fresh) = [file EXCEPT ![c] = key[c]]
    BY <1>0, <2>2, MergedIsFile
  <2> HIDE DEF fresh
  <2>4. c \in Holding
    BY <2>1 DEF Holding
  <2>5. OneHolds'
    BY <1>0, <2>1, <2>4, NoNewHolder DEF InitSteps
  <2>6. entries'[c] = [file EXCEPT ![c] = key[c]]
    BY <1>0, <2>1, <2>3
  <2>7. HoldsTheFile'
    BY <1>0, <2>1, <2>6 DEF HoldsTheFile
  <2> QED
    BY <1>0, <2>1, <2>5, <2>7
<1>5. CASE TruncateFile(c)
  <2>1. /\ ~clash /\ file' = file /\ listed' = listed /\ entries' = entries /\ key' = key
        /\ init[c] = "merged" /\ init' = [init EXCEPT ![c] = "truncated"]
    BY <1>5 DEF TruncateFile
  <2>2. c \in Holding
    BY <2>1 DEF Holding
  <2>3. OneHolds'
    BY <1>0, <2>1, <2>2, NoNewHolder DEF InitSteps
  <2>4. HoldsTheFile'
    BY <1>0, <2>1 DEF HoldsTheFile
  <2> QED
    BY <1>0, <2>1, <2>3, <2>4
<1>6. CASE WriteFile(c)
  <2>1. /\ ~clash /\ init[c] = "truncated" /\ file' = entries[c]
        /\ listed' = [listed EXCEPT ![c] = key[c]] /\ key' = key
        /\ init' = [init EXCEPT ![c] = "idle"]
    BY <1>6 DEF WriteFile
  <2>2. file' = [file EXCEPT ![c] = key[c]]
    BY <1>0, <2>1 DEF HoldsTheFile
  <2>3. file' = listed'
    BY <1>0, <2>1, <2>2
  <2>4. OneHolds'
    BY <1>0, <2>1, NoNewHolder DEF InitSteps
  <2>5. \A d \in Companies : init'[d] \notin {"opened", "merged", "truncated"}
    BY <1>0, <2>1 DEF OneHolds, Holding
  <2>6. HoldsTheFile'
    BY <2>5 DEF HoldsTheFile
  <2> QED
    BY <2>3, <2>4, <2>6
<1>7. CASE InitDies(c)
  <2>1. /\ ~clash /\ file' = file /\ listed' = listed /\ key' = key
        /\ entries' = [entries EXCEPT ![c] = NoBook] /\ init' = [init EXCEPT ![c] = "idle"]
    BY <1>7 DEF InitDies
  <2>2. OneHolds'
    BY <1>0, <2>1, NoNewHolder DEF InitSteps
  <2>3. HoldsTheFile'
    BY <1>0, <2>1 DEF HoldsTheFile
  <2> QED
    BY <1>0, <2>1, <2>2, <2>3
<1> QED
  BY <1>1, <1>2, <1>3, <1>4, <1>5, <1>6, <1>7 DEF Initialise

(* Every step of the directory, or beside it. *)
LEMMA DirectoryStepInv == DirectoryInv /\ (DirectoryStep \/ UNCHANGED directoryVars) => DirectoryInv'
<1> SUFFICES ASSUME DirectoryInv, DirectoryStep \/ UNCHANGED directoryVars PROVE DirectoryInv'
  OBVIOUS
<1>1. CASE DirectoryStep
  BY <1>1, DirectoryTypeStep, UndisputedStep DEF DirectoryStep, DirectoryInv
<1>2. CASE UNCHANGED directoryVars
  BY <1>2 DEF directoryVars, DirectoryInv, DirectoryTypeOK, Undisputed, OneHolds, HoldsTheFile, Holding
<1> QED
  BY <1>1, <1>2

-----------------------------------------------------------------------------
(* What follows of the property of Directory. *)

(* Whoever finished is on file with the key it finished with. *)
LEMMA InvListed == DirectoryInv => OneAfterTheOtherIsListed
BY DEF DirectoryInv, DirectoryTypeOK, Undisputed, OneAfterTheOtherIsListed

(* A key is generated by a company at rest, and listed by one that is not; *)
(* no entry changes that no init has written.                              *)
LEMMA KeysAndLists ==
    ASSUME DirectoryTypeOK, DirectoryStep, NEW c \in Companies
    PROVE  /\ \/ key'[c] = key[c] /\ (init'[c] # "idle" => init[c] # "idle")
              \/ init[c] = "idle" /\ key'[c] = key[c] + 1
           /\ \/ listed'[c] = listed[c]
              \/ init[c] # "idle" /\ listed'[c] = key[c]
           /\ clash => clash'
<1> PICK d \in Companies : Initialise(d)
  BY DEF DirectoryStep
<1> USE DEF DirectoryTypeOK, Books, Keys
<1>1. CASE GenerateKey(d)
  BY <1>1 DEF GenerateKey
<1>2. CASE WriteFile(d)
  BY <1>2 DEF WriteFile
<1>3. CASE OpenDirectory(d)
  BY <1>3 DEF OpenDirectory
<1>4. CASE OpenFails(d) \/ InitDies(d)
  BY <1>4 DEF OpenFails, InitDies
<1>5. CASE RereadAndMerge(d) \/ TruncateFile(d)
  BY <1>5 DEF RereadAndMerge, TruncateFile
<1> QED
  BY <1>1, <1>2, <1>3, <1>4, <1>5 DEF Initialise
=============================================================================
