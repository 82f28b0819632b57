------------------------------ MODULE Directory ------------------------------
(***************************************************************************)
(* The key directory (package directory): one file that several companies  *)
(* publish their keys in and look each other up in.  "exnode init" makes a *)
(* key pair, reads the file, reads it again in Publish, adds its entry and *)
(* rewrites the whole file, which is empty from the moment os.WriteFile    *)
(* opens it until the bytes are there.  The mutex of a Directory guards    *)
(* one process only.                                                       *)
(*                                                                         *)
(* A key is the number of times its company was initialised, 0 for none.   *)
(***************************************************************************)
EXTENDS Naturals

CONSTANTS Companies,
          MaxInits     \* bound: how often each is initialised

ASSUME InitsAssumption == MaxInits \in [Companies -> Nat]

VARIABLES file,      \* directory.json: the entries last written
          empty,     \* it is empty: the next entries are about to be written
          key,       \* the key pair in each home
          init,      \* where "exnode init" is for each company
          entries,   \* the entries it has in memory
          \* What no process knows, for the properties:
          clash,     \* an init opened the file before another had written it
          listed     \* the key each company has completed an init with

directoryVars == <<file, empty, key, init, entries, clash, listed>>

Keys == Nat
Books == [Companies -> Keys]
NoBook == [c \in Companies |-> 0]

InitSteps == {"idle", "generated", "opened", "merged", "truncated"}

DirectoryTypeOK == /\ file \in Books /\ empty \in BOOLEAN
                   /\ key \in Books /\ listed \in Books
                   /\ init \in [Companies -> InitSteps]
                   /\ entries \in [Companies -> Books]
                   /\ clash \in BOOLEAN

(* Companies whose "exnode init" has entries in memory. *)
Holding == {c \in Companies : init[c] \in {"opened", "merged", "truncated"}}

(* Open: an empty file does not decode. *)
CanOpen == ~empty

(* Mutant: what the node read when it was opened, nothing. *)
LookUpAtStart(c) == NoBook[c]

(* LookUp reads the file anew; 0 stands for an error, and the key is nil.  *)
LookUp(c) == IF CanOpen THEN file[c] ELSE 0

-----------------------------------------------------------------------------
(* engine.Init, step by step. *)
GenerateKey(c) ==
    /\ init[c] = "idle" /\ key[c] < MaxInits[c]
    /\ key' = [key EXCEPT ![c] = @ + 1]
    /\ init' = [init EXCEPT ![c] = "generated"]
    /\ UNCHANGED <<file, empty, entries, clash, listed>>

OpenDirectory(c) ==
    /\ init[c] = "generated" /\ CanOpen
    /\ entries' = [entries EXCEPT ![c] = file]
    /\ init' = [init EXCEPT ![c] = "opened"]
    /\ clash' = (clash \/ Holding # {})
    /\ UNCHANGED <<file, empty, key, listed>>

(* The directory is not readable: init gives up, with a key pair nobody    *)
(* has heard of.                                                           *)
OpenFails(c) ==
    /\ init[c] = "generated" /\ ~CanOpen
    /\ init' = [init EXCEPT ![c] = "idle"]
    /\ UNCHANGED <<file, empty, key, entries, clash, listed>>

(* Mutant: the entries of others are not carried over. *)
OnlyOwn(c, mine, fresh) == [NoBook EXCEPT ![c] = key[c]]

(* Entries already in memory win over those on file. *)
Merged(c, mine, fresh) ==
    [d \in Companies |-> IF d = c THEN key[c] ELSE IF mine[d] # 0 THEN mine[d] ELSE fresh[d]]

(* Publish reads again; a file it cannot read is passed over. *)
RereadAndMerge(c) ==
    /\ init[c] = "opened"
    /\ entries' = [entries EXCEPT ![c] = Merged(c, @, IF CanOpen THEN file ELSE NoBook)]
    /\ init' = [init EXCEPT ![c] = "merged"]
    /\ UNCHANGED <<file, empty, key, clash, listed>>

TruncateFile(c) ==
    /\ init[c] = "merged"
    /\ empty' = TRUE
    /\ init' = [init EXCEPT ![c] = "truncated"]
    /\ UNCHANGED <<file, key, entries, clash, listed>>

WriteFile(c) ==
    /\ init[c] = "truncated"
    /\ file' = entries[c] /\ empty' = FALSE
    /\ init' = [init EXCEPT ![c] = "idle"]
    /\ listed' = [listed EXCEPT ![c] = key[c]]
    /\ entries' = [entries EXCEPT ![c] = NoBook]
    /\ UNCHANGED <<key, clash>>

InitDies(c) ==
    /\ init[c] # "idle"
    /\ init' = [init EXCEPT ![c] = "idle"]
    /\ entries' = [entries EXCEPT ![c] = NoBook]
    /\ UNCHANGED <<file, empty, key, clash, listed>>

DirectoryInit == /\ file = NoBook /\ empty = FALSE /\ key = NoBook /\ listed = NoBook
                 /\ init = [c \in Companies |-> "idle"]
                 /\ entries = [c \in Companies |-> NoBook]
                 /\ clash = FALSE

Initialise(c) == \/ GenerateKey(c) \/ OpenDirectory(c) \/ OpenFails(c)
                 \/ RereadAndMerge(c) \/ TruncateFile(c) \/ WriteFile(c) \/ InitDies(c)

-----------------------------------------------------------------------------
(* directory.go: nodes that initialise against the same file do not        *)
(* clobber each other's entries - as long as none opens the file before    *)
(* another has written it.  Whoever finished is on file then with the key  *)
(* it finished with, whenever the file can be read.                        *)
OneAfterTheOtherIsListed ==
    clash \/ ~CanOpen \/ \A c \in Companies : file[c] = listed[c]

=============================================================================
