---------------------------- MODULE GoldenSuite ----------------------------
(***************************************************************************)
(* The command validate-golden-suite: ValidateDir reads three files one    *)
(* after the other, each of them inspected, opened and read, piece by      *)
(* piece, in separate system calls, then checks what it has read (module   *)
(* GoldenContract) and reports.  Meanwhile a publisher, who is not part of *)
(* this repository, brings the directory from one release to the next,     *)
(* file by file: by renaming a new file into place, by a symbolic link, by *)
(* removing and creating, or by writing a file where it is.                *)
(*                                                                         *)
(* A file is Size pieces long, the ones io.ReadAll reads one by one.  A    *)
(* release gives every path a name for what the path's file holds, and all *)
(* pieces of the file bear it; a file written while it is read may show    *)
(* pieces of several names.  Decoded gives the document, or None when the  *)
(* bytes are not one JSON value of the document's fields.  The number of   *)
(* an inode is free again when no path and no open file has it.            *)
(*                                                                         *)
(* Of the publisher it is assumed that a release has the three files; of   *)
(* the decoder, that the lists of a document are lists.                    *)
(***************************************************************************)
EXTENDS GoldenContract, FiniteSets

CONSTANTS
  Size,        \* the number of pieces a file is read in
  Decoded(_),  \* the document that a sequence of pieces decodes to
  Torn,        \* a piece that is not there, or no longer
  Histories,   \* sequences of releases the publisher may go through
  Numbers,     \* Numbers[p]: the inode numbers that files of path p may get
  InPlace      \* the paths whose files are also written where they are

Paths == {"manifest.json", "quality-gates.json", "cases.json"}

Inodes == UNION {Numbers[p] : p \in Paths}

\* The first file of a path has the number that is named after the path.
ASSUME NumbersAssumption == \A p \in Paths : p \in Numbers[p]

Places == 1..Size

\* What the file of path p may hold while the releases h are published.
PiecesOf(h, p) == {Torn} \cup {h[k][p] : k \in 1..Len(h)}
ContentsOf(h, p) == [Places -> PiecesOf(h, p)]

ASSUME SizeAssumption == Size \in Nat \ {0}
ASSUME HistoriesAssumption ==
  \A h \in Histories :
    /\ Len(h) \in Nat \ {0}
    /\ \A k \in 1..Len(h) : h[k] \in [Paths -> {h[k][p] : p \in Paths}]
ASSUME NoneAssumption ==
  /\ None \notin {0, 1, 2} /\ None \notin Inodes
  /\ \A h \in Histories : \A p \in Paths : None \notin ContentsOf(h, p)
ASSUME ListsAssumption ==
  \A h \in Histories :
    /\ \A s \in ContentsOf(h, "manifest.json") : LET m == Decoded(s) IN
         m # None => m.excluded \in Seq(At(m.excluded))
    /\ \A s \in ContentsOf(h, "quality-gates.json") : LET g == Decoded(s) IN
         g # None => g.metrics \in Seq(At(g.metrics))
    /\ \A s \in ContentsOf(h, "cases.json") : LET c == Decoded(s) IN
         c # None => c.cases \in Seq(At(c.cases))

VARIABLES
  history,   \* the releases, the first of which is there at the start
  release,   \* the release being published, or published last
  pending,   \* the paths that still have to be brought to it
  dir,       \* dir[p]: the directory entry of path p
  disk,      \* disk[i]: the pieces of inode i
  patched,   \* history: has the manifest been written where it is
  at,        \* what the validator does next
  file,      \* the path it is working on
  handle,    \* the inode it has inspected or opened
  got,       \* the pieces it has read of it
  bytes,     \* bytes[p]: what it has read of path p
  exit,      \* its exit code
  seen,      \* history: the pairs <<k, c>> such that the path, since it was
             \* inspected, was once a regular file with piece c at place k
  reused     \* history: has the number that was inspected got a new file

published == <<history, release, pending, dir, disk, patched>>
validator == <<at, file, handle, got, bytes, exit>>
vars == <<history, release, pending, dir, disk, patched, at, file, handle, got,
          bytes, exit, seen, reused>>

\* What release k has for path p, and a file nobody has written to.
Released(k, p) == [j \in Places |-> history[k][p]]
Nothing == [j \in Places |-> Torn]

Entries == [kind: {"file", "link"}, inode: Inodes]

Regular(p) == dir[p] # None /\ dir[p].kind = "file"

\* What the path the validator works on shows as a regular file.
Shown ==
  IF Regular(file) THEN {<<k, disk[dir[file].inode][k]>> : k \in Places} ELSE {}

-----------------------------------------------------------------------------
(* The publisher *)

\* A file that is open keeps its number.
InUse ==
  {i \in Inodes : \/ \E p \in Paths : dir[p] # None /\ dir[p].inode = i
                  \/ at = "read" /\ i = handle}

BeginRelease ==
  /\ pending = {} /\ release < Len(history)
  /\ release' = release + 1
  /\ pending' = Paths
  /\ UNCHANGED <<history, dir, disk, patched, reused>>

\* Path p gets inode i, which holds content.
Put(p, kind, i, content) ==
  /\ i \in Numbers[p] \ InUse
  /\ dir' = [dir EXCEPT ![p] = [kind |-> kind, inode |-> i]]
  /\ disk' = [disk EXCEPT ![i] = content]
  /\ reused' = (reused \/ (at = "open" /\ i = handle))

\* By a file or a link, over what is there or where nothing is.
Replace(p, kind, i) ==
  /\ p \in pending
  /\ Put(p, kind, i, Released(release, p))
  /\ pending' = pending \ {p}
  /\ UNCHANGED <<history, release, patched>>

Remove(p) ==
  /\ p \in pending /\ dir[p] # None
  /\ dir' = [dir EXCEPT ![p] = None]
  /\ UNCHANGED <<history, release, pending, disk, patched, reused>>

\* From here on the file is written where it is.
Create(p, i) ==
  /\ p \in pending \cap InPlace /\ dir[p] = None
  /\ Put(p, "file", i, Nothing)
  /\ patched' = (patched \/ p = "manifest.json")
  /\ UNCHANGED <<history, release, pending>>

Write(p, content) ==
  /\ p \in pending \cap InPlace /\ dir[p] # None
  /\ disk' = [disk EXCEPT ![dir[p].inode] = content]
  /\ patched' = (patched \/ p = "manifest.json")
  /\ UNCHANGED <<history, release, pending, dir, reused>>

Truncate(p) == Write(p, Nothing)

\* From front to back.
WritePiece(p, k) ==
  /\ dir[p] # None
  /\ \A j \in 1..k - 1 : disk[dir[p].inode][j] = history[release][p]
  /\ Write(p, [disk[dir[p].inode] EXCEPT ![k] = history[release][p]])

\* Path p has come to hold what the release has for it.
Finish(p) ==
  /\ p \in pending /\ dir[p] # None
  /\ disk[dir[p].inode] = Released(release, p)
  /\ pending' = pending \ {p}
  /\ UNCHANGED <<history, release, dir, disk, patched, reused>>

\* After the last read nobody sees what it does.
Publish ==
  /\ at \in {"start", "inspect", "open", "read"}
  /\ \/ BeginRelease
     \/ \E p \in Paths :
          \/ \E i \in Inodes :
               Create(p, i) \/ \E kind \in {"file", "link"} : Replace(p, kind, i)
          \/ Remove(p) \/ Truncate(p) \/ Finish(p)
          \/ \E k \in Places : WritePiece(p, k)
  /\ UNCHANGED validator
  /\ seen' = IF at \in {"open", "read"} THEN seen \cup Shown' ELSE seen

-----------------------------------------------------------------------------
(* The validator *)

Exit(code) == at' = "exit" /\ exit' = code

\* os.Args: the command takes one directory.
Start ==
  /\ at = "start"
  /\ \/ at' = "inspect" /\ UNCHANGED exit
     \/ Exit(2)
  /\ UNCHANGED <<published, file, handle, got, bytes, seen, reused>>

\* os.Lstat; a file that is absent or no regular file ends it.
Inspect ==
  /\ at = "inspect"
  /\ IF Regular(file)
     THEN at' = "open" /\ handle' = dir[file].inode /\ UNCHANGED exit
     ELSE Exit(1) /\ UNCHANGED handle
  /\ seen' = Shown /\ reused' = FALSE
  /\ UNCHANGED <<published, file, got, bytes>>

\* Mutant: what was opened is not compared with what was inspected.
OpenUnchecked ==
  /\ at = "open"
  /\ IF dir[file] # None
     THEN at' = "read" /\ handle' = dir[file].inode /\ UNCHANGED exit
     ELSE Exit(1) /\ UNCHANGED handle
  /\ UNCHANGED <<published, file, got, bytes, seen, reused>>

\* os.Open, which follows a link, and os.SameFile, which compares numbers.
Open ==
  /\ at = "open"
  /\ IF dir[file] # None /\ dir[file].inode = handle
     THEN at' = "read" /\ UNCHANGED exit
     ELSE Exit(1)
  /\ UNCHANGED <<published, file, handle, got, bytes, seen, reused>>

\* io.ReadAll, one read after the other; one may fail.
Read ==
  /\ at = "read" /\ Len(got) < Size
  /\ \/ /\ got' = Append(got, disk[handle][Len(got) + 1])
        /\ UNCHANGED <<at, exit>>
     \/ Exit(1) /\ UNCHANGED got
  /\ UNCHANGED <<published, file, handle, bytes, seen, reused>>

\* The manifest has to name the two other files.
NamesPinned ==
  Decoded(bytes'["manifest.json"]).accepted.files =
    <<"quality-gates.json", "cases.json">>

\* Mutant: the case set is never read.
DecodeTwo ==
  /\ at = "read" /\ Len(got) = Size
  /\ bytes' = [bytes EXCEPT ![file] = got]
  /\ IF Decoded(got) # None /\ NamesPinned
     THEN /\ at' = IF file = "manifest.json" THEN "inspect" ELSE "check"
          /\ UNCHANGED exit
     ELSE Exit(1)
  /\ handle' = None /\ got' = <<>>
  /\ file' = "quality-gates.json"
  /\ UNCHANGED <<published, seen, reused>>

\* The decoder, at the end of a file, and what comes next.
Decode ==
  /\ at = "read" /\ Len(got) = Size
  /\ bytes' = [bytes EXCEPT ![file] = got]
  /\ IF Decoded(got) # None /\ NamesPinned
     THEN /\ at' = IF file = "cases.json" THEN "check" ELSE "inspect"
          /\ UNCHANGED exit
     ELSE Exit(1)
  /\ handle' = None /\ got' = <<>>
  /\ file' = IF file = "manifest.json" THEN "quality-gates.json" ELSE "cases.json"
  /\ UNCHANGED <<published, seen, reused>>

Check ==
  /\ at = "check"
  /\ LET m == Decoded(bytes["manifest.json"])
         g == Decoded(bytes["quality-gates.json"])
         c == Decoded(bytes["cases.json"]) IN
     IF /\ validateManifest(m, bytes["quality-gates.json"], bytes["cases.json"])
        /\ validateQualityGates(m, g)
        /\ validateCaseSet(m, g, c)
     THEN at' = "report" /\ UNCHANGED exit
     ELSE Exit(1)
  /\ UNCHANGED <<published, file, handle, got, bytes, seen, reused>>

\* The summary is written, or writing it fails.
Report ==
  /\ at = "report"
  /\ Exit(0) \/ Exit(1)
  /\ UNCHANGED <<published, file, handle, got, bytes, seen, reused>>

Validator == Start \/ Inspect \/ Open \/ Read \/ Decode \/ Check \/ Report

-----------------------------------------------------------------------------

Init ==
  /\ history \in Histories
  /\ release = 1 /\ pending = {}
  /\ dir = [p \in Paths |-> [kind |-> "file", inode |-> p]]
  /\ disk = [i \in Inodes |-> IF i \in Paths THEN Released(1, i) ELSE Nothing]
  /\ patched = FALSE
  /\ at = "start" /\ file = "manifest.json" /\ handle = None /\ got = <<>>
  /\ bytes = [p \in Paths |-> None]
  /\ exit = None
  /\ seen = {} /\ reused = FALSE

Next == Publish \/ Validator

Spec == Init /\ [][Next]_vars

-----------------------------------------------------------------------------
(* Properties *)

Pieces == UNION {PiecesOf(history, p) : p \in Paths}

TypeOK ==
  /\ release \in 1..Len(history)
  /\ pending \subseteq Paths
  /\ dir \in [Paths -> Entries \cup {None}]
  /\ disk \in [Inodes -> [Places -> Pieces]]
  /\ patched \in BOOLEAN /\ reused \in BOOLEAN
  /\ at \in {"start", "inspect", "open", "read", "check", "report", "exit"}
  /\ file \in Paths /\ handle \in Inodes \cup {None}
  /\ got \in Seq(Pieces) /\ Len(got) <= Size
  /\ bytes \in [Paths -> [Places -> Pieces] \cup {None}]
  /\ at \in {"check", "report"} => bytes \in [Paths -> [Places -> Pieces]]
  /\ exit \in {None, 0, 1, 2} /\ (exit # None <=> at = "exit")

Accepted == at = "report" \/ exit = 0

(***************************************************************************)
(* AcceptedIsOneRelease: if the manifest of an accepted suite is that of a *)
(* release, and that release pins its own companions, then the suite is    *)
(* this release and no mixture of two, although the files are read one by  *)
(* one, piece by piece, while they are replaced and rewritten.  And the    *)
(* manifest is that of a release unless somebody has written to it where   *)
(* it is: nothing pins the manifest, so a mixture of two manifests that    *)
(* decodes can be accepted then.                                           *)
(***************************************************************************)
PinsItsOwn(k) ==
  LET accepted == Decoded(Released(k, "manifest.json")).accepted IN
  /\ accepted.quality_gate_sha256 = sha256Hex(Released(k, "quality-gates.json"))
  /\ accepted.case_set_sha256 = sha256Hex(Released(k, "cases.json"))

IsManifestOf(k) == bytes["manifest.json"] = Released(k, "manifest.json")

AcceptedIsOneRelease ==
  Accepted =>
    /\ patched \/ \E k \in 1..release : IsManifestOf(k)
    /\ \A k \in 1..release : IsManifestOf(k) /\ PinsItsOwn(k) =>
         \A p \in Paths : bytes[p] = Released(k, p)

(***************************************************************************)
(* ReadWasThere: whatever piece the validator has read was at its place in *)
(* the file at the path, a regular one, at some instant since the path was *)
(* inspected; nothing is read through a link, and nothing that had been    *)
(* replaced by then.  decodeFile looks at the path twice, and SameFile has *)
(* to close the gap between the two looks.  It compares numbers, so it     *)
(* cannot when the number was given to a new file in that gap.             *)
(***************************************************************************)
ReadWasThere ==
  (at = "read" /\ ~reused) => \A k \in 1..Len(got) : <<k, got[k]>> \in seen

(***************************************************************************)
(* AcceptedIsSound: what the checks, spread over three functions and       *)
(* written as running counts and maps of what was seen, come to for an     *)
(* accepted suite: accepted and excluded ids are disjoint and partition    *)
(* the cases of the source; the gate can be met by the accepted cases; no  *)
(* two cases ask the same; every required metric is gated once and mapped; *)
(* no case rests on blocked evidence; a key is published exactly when the  *)
(* trust anchor is accepted; and nothing authorises a rollout.             *)
(***************************************************************************)
Partitioned(m, c) ==
  LET ids == {item.id : item \in At(c.cases)}
      out == {x.id : x \in At(m.excluded)} IN
  /\ ids \cap out = {} /\ "" \notin ids \cup out
  /\ Cardinality(ids) = Len(c.cases) /\ Cardinality(out) = Len(m.excluded)
  /\ Cardinality(ids \cup out) = m.source.case_count

Gated(g) ==
  \A key \in DOMAIN requiredMetrics :
    /\ Cardinality({k \in 1..Len(g.metrics) : g.metrics[k].key = key}) = 1
    /\ key \in DOMAIN g.verentir_mapping.metrics

AcceptedIsSound ==
  Accepted =>
    LET m == Decoded(bytes["manifest.json"])
        g == Decoded(bytes["quality-gates.json"])
        c == Decoded(bytes["cases.json"])
        inputs == {item.input.normal : item \in At(c.cases)} IN
    /\ Partitioned(m, c)
    /\ g.minimum_evaluated_cases \in 1..Cardinality(inputs)
    /\ Cardinality(inputs) = Len(c.cases)
    /\ Gated(g)
    /\ \A item \in At(c.cases) : \A d \in At(item.evidence_document_ids) :
         d \notin At(m.blocked)
    /\ m.signing_trust_anchor_status = "pending" <=>
         g.verentir_mapping.result_signing_public_key = None
    /\ ~m.rollout_authorized /\ g.public_rollout_approval_required
=============================================================================
