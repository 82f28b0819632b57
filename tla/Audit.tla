-------------------------------- MODULE Audit --------------------------------
(***************************************************************************)
(* The diary of one home (package audit): a file of lines, each with the   *)
(* hash of the one before it.  Append reads the whole file for the last    *)
(* hash and then writes one line at its end; nothing keeps two processes   *)
(* of one home ("exnode serve" and a terminal command) from doing so at    *)
(* the same time, and a full disk may cut a line short.                    *)
(*                                                                         *)
(* SHA-256 is taken to be free of collisions: a hash is the sequence of    *)
(* the events it covers, the genesis hash the empty one.                   *)
(***************************************************************************)
EXTENDS Naturals, Sequences

CONSTANTS Writers,     \* processes of the home
          Events,      \* what may be recorded
          MaxLines,    \* bound: lines in the diary
          MaxEdits     \* bound: how often somebody edits a line by hand

ASSUME LinesAssumption == MaxLines \in Nat

VARIABLES log,        \* the lines of audit-log.jsonl
          append,     \* the Append each process is in: event and last hash read
          \* What no process knows, for the properties:
          written,    \* the event of each line, as it was recorded
          shared,     \* two processes were in Append at once
          torn,       \* a line was cut short
          edits       \* how often a line was edited

auditVars == <<log, append, written, shared, torn, edits>>

Genesis == <<>>
Hash(event, previous) == Append(previous, event)

Hashes == Seq(Events)
Line(event, previous) ==
    [event |-> event, previous |-> previous, hash |-> Hash(event, previous)]
Lines == [event : Events, previous : Hashes, hash : Hashes]
Torn == [hash |-> "torn"]

Appends == [event : Events, previous : Hashes]
NoAppend == [event |-> "none"]

AuditTypeOK == /\ log \in Seq(Lines \cup {Torn}) /\ written \in Seq(Events)
               /\ Len(log) = Len(written)
               /\ append \in [Writers -> Appends \cup {NoAppend}]
               /\ shared \in BOOLEAN /\ torn \in BOOLEAN /\ edits \in Nat

-----------------------------------------------------------------------------
(* readAll stops at the first line it cannot decode, with an error. *)
Readable(lines) == \A i \in DOMAIN lines : lines[i] # Torn

(* Mutant: the hash before the last. *)
LastHashButOne(lines) == IF Len(lines) < 2 THEN Genesis ELSE lines[Len(lines) - 1].hash

LastHash(lines) ==
    IF lines = <<>> \/ ~Readable(lines) THEN Genesis ELSE lines[Len(lines)].hash

(* The hash the line at i has to name. *)
HashBefore(lines, i) == IF i = 1 THEN Genesis ELSE lines[i - 1].hash

(* Mutant: a line is not hashed again. *)
ChainsOnly(lines) ==
    Readable(lines) /\ \A i \in DOMAIN lines : lines[i].previous = HashBefore(lines, i)

(* Mutant: only the last line is looked at. *)
LastLineVerifies(lines) ==
    LET n == Len(lines)
    IN Readable(lines) /\ (n > 0 => /\ lines[n].previous = HashBefore(lines, n)
                                   /\ lines[n].hash = Hash(lines[n].event, lines[n].previous))

Verify(lines) ==
    /\ Readable(lines)
    /\ \A i \in DOMAIN lines : /\ lines[i].previous = HashBefore(lines, i)
                               /\ lines[i].hash = Hash(lines[i].event, lines[i].previous)

-----------------------------------------------------------------------------
(* Append, in two steps: the last hash is read, the line is written. *)
BeginAppend(w, event) ==
    /\ append[w] = NoAppend
    /\ append' = [append EXCEPT ![w] = [event |-> event, previous |-> LastHash(log)]]
    /\ shared' = (shared \/ \E v \in Writers \ {w} : append[v] # NoAppend)
    /\ UNCHANGED <<log, written, torn, edits>>

PutLine(w, line) ==
    /\ append[w] # NoAppend /\ Len(log) < MaxLines
    /\ log' = Append(log, line)
    /\ written' = Append(written, append[w].event)
    /\ append' = [append EXCEPT ![w] = NoAppend]
    /\ UNCHANGED <<shared, edits>>

WriteLine(w) ==
    /\ PutLine(w, Line(append[w].event, append[w].previous))
    /\ UNCHANGED torn

(* The disk is full: part of the line is there.  Nobody looks at the error *)
(* Append returns, and the next line is written right behind.              *)
WriteIsCutShort(w) == PutLine(w, Torn) /\ torn' = TRUE

(* The process dies before it writes. *)
AppendDies(w) ==
    /\ append[w] # NoAppend
    /\ append' = [append EXCEPT ![w] = NoAppend]
    /\ UNCHANGED <<log, written, shared, torn, edits>>

(* Somebody opens the file in a text editor and changes what a line says,  *)
(* and, if it is a past line, perhaps its hash, so that the line by itself *)
(* is sound again.  The hash has no key: a last line hashed anew, or lines *)
(* cut off at the end, are changes no chain shows.                         *)
Reworded(line, event) == [line EXCEPT !.event = event]

EditLine(i, event) ==
    /\ edits < MaxEdits
    /\ i \in DOMAIN log /\ log[i] # Torn
    /\ \/ log' = [log EXCEPT ![i] = Reworded(@, event)]
       \/ i < Len(log) /\ log' = [log EXCEPT ![i] = Line(event, @.previous)]
    /\ edits' = edits + 1
    /\ UNCHANGED <<append, written, shared, torn>>

AuditInit == /\ log = <<>> /\ written = <<>>
             /\ append = [w \in Writers |-> NoAppend]
             /\ shared = FALSE /\ torn = FALSE /\ edits = 0

Edit == \E i \in DOMAIN log, e \in Events : EditLine(i, e)

-----------------------------------------------------------------------------
(* audit.go: editing any past line breaks the chain.  What a diary says    *)
(* that verifies is what was recorded, line by line, whoever wrote it at   *)
(* the same time and whatever was cut short or edited.                     *)
VerifiedIsWhatWasRecorded ==
    Verify(log) => \A i \in DOMAIN log : log[i].event = written[i]

(* A diary does not cry wolf: it verifies unless a line was edited or cut  *)
(* short, or two processes of the home were in Append at once.             *)
BreaksForAReason == Verify(log) \/ shared \/ torn \/ edits > 0

(* audit.go: "from that point on".  A broken chain is not mended by what   *)
(* is appended to it; only another edit can.                               *)
BrokenStaysBroken == [][Verify(log)' => Verify(log) \/ edits' > edits]_auditVars
=============================================================================
