---------------------------- MODULE GoldenProofs ----------------------------
(***************************************************************************)
(* Proofs about the golden suite validator, for every suite and every      *)
(* sequence of releases that is published while it runs, in files of any   *)
(* number of pieces.  GInv says what the file of each path holds, that     *)
(* what the validator has opened was at the path since it was inspected,   *)
(* and what it has checked when it reports.                                *)
(***************************************************************************)
EXTENDS GoldenSuite, FiniteSetTheorems, SequenceTheorems, TLAPS

IsManifest(s) == \E k \in 1..release : s = Released(k, "manifest.json")

\* Content s is what the file of path p may hold: any pieces of path p, and
\* those of one release if it is the manifest and was only renamed into place.
Holds(p, s) ==
  /\ s \in ContentsOf(history, p)
  /\ p = "manifest.json" /\ ~patched => IsManifest(s)

\* No two paths share a file.
EntryInv ==
  \A p \in Paths : dir[p] # None =>
    /\ Holds(p, disk[dir[p].inode])
    /\ \A q \in Paths \ {p} : dir[q] # None => dir[q].inode # dir[p].inode

SeenInv == at \in {"open", "read"} => Shown \subseteq seen

\* An entry with the number that was inspected is the file that was inspected.
HandleInv ==
  at \in {"open", "read"} =>
    /\ handle \in Inodes
    /\ dir[file] # None /\ dir[file].inode = handle => reused \/ Regular(file)

(***************************************************************************)
(* ReadInv: what is open is a file of the path, and of no other; whatever  *)
(* it holds was there; and so was what has been read of it, which, of a    *)
(* manifest that was renamed into place, is what it holds.                 *)
(***************************************************************************)
ReadInv ==
  at = "read" =>
    /\ Holds(file, disk[handle])
    /\ \A q \in Paths \ {file} : dir[q] # None => dir[q].inode # handle
    /\ got \in Seq(PiecesOf(history, file))
    /\ reused \/ \A k \in Places : <<k, disk[handle][k]>> \in seen
    /\ reused \/ \A k \in 1..Len(got) : <<k, got[k]>> \in seen
    /\ file = "manifest.json" /\ ~patched =>
         \A k \in 1..Len(got) : got[k] = disk[handle][k]

\* The files are read in order, and the checks see all three.
StageInv ==
  /\ at = "start" =>
       file = "manifest.json" /\ \A p \in Paths : bytes[p] = None
  /\ at \in {"start", "inspect", "open"} => got = <<>>
  /\ at \in {"inspect", "open", "read"} =>
       /\ file # "manifest.json" => bytes["manifest.json"] # None
       /\ file = "cases.json" => bytes["quality-gates.json"] # None
  /\ at \in {"check", "report"} \/ exit = 0 => \A p \in Paths : bytes[p] # None

BytesInv ==
  \A p \in Paths : bytes[p] # None =>
    /\ Holds(p, bytes[p])
    /\ at # "exit" \/ exit = 0 => Decoded(bytes[p]) # None

\* The checks of contract.go on what has been read.
Checked ==
  LET m == Decoded(bytes["manifest.json"])
      g == Decoded(bytes["quality-gates.json"])
      c == Decoded(bytes["cases.json"]) IN
  /\ validateManifest(m, bytes["quality-gates.json"], bytes["cases.json"])
  /\ validateQualityGates(m, g)
  /\ validateCaseSet(m, g, c)

GInv ==
  /\ history \in Histories /\ TypeOK
  /\ EntryInv /\ SeenInv /\ HandleInv /\ ReadInv /\ StageInv /\ BytesInv
  /\ Accepted => Checked

USE NoneAssumption, SizeAssumption

\* What GInv says of the releases, in one place.
LEMMA ReleasesAre ==
  ASSUME GInv
  PROVE  /\ Len(history) \in Nat /\ release \in Nat /\ release > 0
         /\ release <= Len(history) /\ history \in Histories
         /\ \A k \in 1..release, p \in Paths :
              /\ history[k][p] \in PiecesOf(history, p)
              /\ Released(k, p) \in ContentsOf(history, p)
         /\ \A p \in Paths : /\ PiecesOf(history, p) \subseteq Pieces
                             /\ ContentsOf(history, p) \subseteq [Places -> Pieces]
                             /\ None \notin ContentsOf(history, p)
                             /\ Nothing \in ContentsOf(history, p)
<1>1. history \in Histories /\ release \in 1..Len(history)
  BY DEF GInv, TypeOK
<1>2. Len(history) \in Nat \ {0}
  BY <1>1, HistoriesAssumption
<1>3. \A k \in 1..release : k \in 1..Len(history) BY <1>1, <1>2
<1>4. \A k \in 1..release, p \in Paths : history[k][p] \in PiecesOf(history, p)
  BY <1>3 DEF PiecesOf
<1>5. \A k \in 1..release, p \in Paths : Released(k, p) \in ContentsOf(history, p)
  BY <1>4 DEF Released, ContentsOf
<1>6. \A p \in Paths : PiecesOf(history, p) \subseteq Pieces
  BY DEF Pieces
<1>7. \A p \in Paths : /\ ContentsOf(history, p) \subseteq [Places -> Pieces]
                      /\ Nothing \in ContentsOf(history, p)
  <2> SUFFICES ASSUME NEW p \in Paths
               PROVE  /\ ContentsOf(history, p) \subseteq [Places -> Pieces]
                      /\ Nothing \in ContentsOf(history, p)
    OBVIOUS
  <2>1. Torn \in PiecesOf(history, p) BY DEF PiecesOf
  <2>2. Nothing \in ContentsOf(history, p) BY <2>1 DEF Nothing, ContentsOf
  <2>3. QED BY <1>6, <2>2 DEF ContentsOf
<1>8. QED BY <1>1, <1>2, <1>4, <1>5, <1>6, <1>7

\* What a file may hold now it may hold later.
LEMMA HoldsOn ==
  ASSUME GInv, UNCHANGED history, patched => patched',
         release' \in {release, release + 1}, NEW p, NEW s, Holds(p, s)
  PROVE  Holds(p, s)'
<1>1. \A k \in 1..release : k \in 1..release' BY ReleasesAre
<1>2. IsManifest(s) => IsManifest(s)' BY <1>1 DEF IsManifest, Released
<1>3. QED BY <1>2 DEF Holds, ContentsOf, PiecesOf

\* What path p gets from the release that is published.
LEMMA ReleaseHolds ==
  ASSUME GInv, NEW p \in Paths PROVE Holds(p, Released(release, p))
<1>1. release \in 1..release BY ReleasesAre
<1>2. Released(release, p) \in ContentsOf(history, p) BY <1>1, ReleasesAre
<1>3. QED BY <1>1, <1>2 DEF Holds, IsManifest

-----------------------------------------------------------------------------
(* The publisher *)

(***************************************************************************)
(* PublishFrame: a step of the publisher leaves the validator alone, and   *)
(* what was read or seen stays so; what remains to be shown is what it     *)
(* does to the directory and to the file the validator holds.              *)
(***************************************************************************)
LEMMA PublishFrame ==
  ASSUME GInv, UNCHANGED history, UNCHANGED validator,
         at \in {"start", "inspect", "open", "read"},
         release' \in {release, release + 1}, release' <= Len(history),
         seen' = IF at \in {"open", "read"} THEN seen \cup Shown' ELSE seen,
         pending' \subseteq Paths, patched => patched',
         patched' \in BOOLEAN, reused' \in BOOLEAN,
         dir' \in [Paths -> Entries \cup {None}],
         disk' \in [Inodes -> [Places -> Pieces]],
         EntryInv', HandleInv', ReadInv'
  PROVE  GInv'
<1>1. UNCHANGED <<at, file, handle, got, bytes, exit>> BY DEF validator
<1>2. release' \in 1..Len(history) BY ReleasesAre
<1>3. UNCHANGED Pieces BY DEF Pieces, PiecesOf
<1>4. TypeOK' BY <1>1, <1>2, <1>3 DEF GInv, TypeOK
<1>5. SeenInv' BY <1>1 DEF SeenInv
<1>6. StageInv' BY <1>1 DEF StageInv, GInv
<1>7. BytesInv'
  <2> SUFFICES ASSUME NEW p \in Paths, bytes[p] # None
               PROVE  /\ Holds(p, bytes[p])'
                      /\ at # "exit" \/ exit = 0 => Decoded(bytes[p]) # None
    BY <1>1 DEF BytesInv
  <2>1. /\ Holds(p, bytes[p])
        /\ at # "exit" \/ exit = 0 => Decoded(bytes[p]) # None
    BY DEF GInv, BytesInv
  <2>2. PICK s : s = bytes[p] OBVIOUS
  <2>3. Holds(p, s)' BY <2>1, <2>2, HoldsOn
  <2>4. bytes'[p] = s BY <1>1, <2>2
  <2>5. QED BY <2>1, <2>3, <2>4 DEF Holds, IsManifest
<1>8. (Accepted => Checked)'
  BY <1>1 DEF GInv, TypeOK, Accepted
<1>9. QED BY <1>4, <1>5, <1>6, <1>7, <1>8 DEF GInv

\* A step that changes neither the directory nor a file.
LEMMA NothingMoves ==
  ASSUME GInv, UNCHANGED <<history, dir, disk, patched, reused>>,
         UNCHANGED validator, at \in {"start", "inspect", "open", "read"},
         release' \in {release, release + 1}, release' <= Len(history),
         seen' = IF at \in {"open", "read"} THEN seen \cup Shown' ELSE seen,
         pending' \subseteq Paths
  PROVE  GInv'
<1>1. UNCHANGED <<at, file, handle, got, bytes, exit>> BY DEF validator
<1>2. \A p, s : Holds(p, s) => Holds(p, s)' BY HoldsOn
<1>3. EntryInv'
  <2>1. \A p \in Paths : dir[p] # None => Holds(p, disk[dir[p].inode])'
    <3> SUFFICES ASSUME NEW p \in Paths, dir[p] # None
                 PROVE  Holds(p, disk[dir[p].inode])'
      OBVIOUS
    <3>1. PICK s : s = disk[dir[p].inode] OBVIOUS
    <3>2. Holds(p, s)' BY <1>2, <3>1 DEF GInv, EntryInv
    <3>3. disk'[dir'[p].inode] = s BY <3>1
    <3>4. QED BY <3>2, <3>3 DEF Holds, IsManifest
  <2>2. QED BY <2>1 DEF GInv, EntryInv
<1>4. HandleInv' BY <1>1 DEF GInv, HandleInv, Regular
<1>5. ReadInv'
  <2> SUFFICES ASSUME at = "read" PROVE ReadInv' BY <1>1 DEF ReadInv
  <2>1. PICK s, f : s = disk[handle] /\ f = file OBVIOUS
  <2>2. Holds(f, s)' BY <1>2, <2>1 DEF GInv, ReadInv
  <2>3. disk'[handle'] = s /\ file' = f BY <1>1, <2>1
  <2>4. Holds(file, disk[handle])' BY <2>2, <2>3 DEF Holds, IsManifest
  <2>5. seen \subseteq seen' OBVIOUS
  <2>6. PiecesOf(history, file)' = PiecesOf(history, file) BY <1>1 DEF PiecesOf
  <2>7. QED BY <1>1, <2>4, <2>5, <2>6 DEF GInv, ReadInv
<1>6. QED
  BY <1>3, <1>4, <1>5, PublishFrame DEF GInv, TypeOK

\* A new file at path p: its number is nobody's.
LEMMA PutKeeps ==
  ASSUME GInv, NEW p \in Paths, NEW kind \in {"file", "link"}, NEW i \in Inodes,
         NEW s, Put(p, kind, i, s), s \in ContentsOf(history, p), Holds(p, s)',
         UNCHANGED <<history, release>>, patched' \in BOOLEAN, patched => patched',
         pending' \subseteq Paths,
         UNCHANGED validator, at \in {"start", "inspect", "open", "read"},
         seen' = IF at \in {"open", "read"} THEN seen \cup Shown' ELSE seen
  PROVE  GInv'
<1>1. UNCHANGED <<at, file, handle, got, bytes, exit>> BY DEF validator
<1>2. /\ dir \in [Paths -> Entries \cup {None}]
      /\ disk \in [Inodes -> [Places -> Pieces]]
      /\ reused \in BOOLEAN /\ file \in Paths
  BY DEF GInv, TypeOK
<1>3. /\ \A q \in Paths : dir[q] # None => dir[q].inode # i
      /\ at = "read" => i # handle
      /\ reused' = (reused \/ (at = "open" /\ i = handle))
  BY DEF Put, InUse
<1>4. /\ dir' \in [Paths -> Entries \cup {None}]
      /\ dir'[p] = [kind |-> kind, inode |-> i]
      /\ \A q \in Paths : q # p => dir'[q] = dir[q]
  BY <1>2 DEF Put, Entries
<1>5. /\ disk' \in [Inodes -> [Places -> Pieces]] /\ disk'[i] = s
      /\ \A j \in Inodes : j # i => disk'[j] = disk[j]
  BY <1>2, ReleasesAre DEF Put
<1>6. \A q, t : Holds(q, t) => Holds(q, t)' BY HoldsOn
<1>7. EntryInv'
  <2> SUFFICES ASSUME NEW q \in Paths, dir'[q] # None
               PROVE  /\ Holds(q, disk[dir[q].inode])'
                      /\ \A r \in Paths \ {q} :
                           dir'[r] # None => dir'[r].inode # dir'[q].inode
    BY DEF EntryInv
  <2>1. PICK t : t = disk'[dir'[q].inode] OBVIOUS
  <2>2. Holds(q, t)'
    <3>1. CASE q = p BY <1>4, <1>5, <2>1, <3>1
    <3>2. CASE q # p
      <4>1. dir[q] # None /\ dir[q].inode \in Inodes /\ dir'[q] = dir[q]
        BY <1>2, <1>4, <3>2 DEF Entries
      <4>2. t = disk[dir[q].inode] BY <1>3, <1>5, <2>1, <4>1
      <4>3. QED BY <1>6, <4>1, <4>2 DEF GInv, EntryInv
    <3>3. QED BY <3>1, <3>2
  <2>3. Holds(q, disk[dir[q].inode])' BY <2>1, <2>2 DEF Holds, IsManifest
  <2>4. \A r \in Paths \ {q} : dir'[r] # None => dir'[r].inode # dir'[q].inode
    BY <1>3, <1>4 DEF GInv, EntryInv
  <2>5. QED BY <2>3, <2>4
<1>8. HandleInv'
  <2> SUFFICES ASSUME at \in {"open", "read"} PROVE HandleInv'
    BY <1>1 DEF HandleInv
  <2>1. handle \in Inodes BY DEF GInv, HandleInv
  <2>2. ASSUME dir'[file] # None, dir'[file].inode = handle
        PROVE  reused' \/ Regular(file)'
    <3>1. CASE file = p
      <4>1. i = handle BY <1>4, <2>2, <3>1
      <4>2. at = "open" BY <1>3, <4>1
      <4>3. QED BY <1>2, <1>3, <4>1, <4>2
    <3>2. CASE file # p
      BY <1>1, <1>2, <1>3, <1>4, <2>2, <3>2 DEF GInv, HandleInv, Regular
    <3>3. QED BY <3>1, <3>2
  <2>3. QED BY <1>1, <2>1, <2>2 DEF HandleInv
<1>9. ReadInv'
  <2> SUFFICES ASSUME at = "read" PROVE ReadInv' BY <1>1 DEF ReadInv
  <2>1. handle \in Inodes /\ i # handle /\ disk'[handle] = disk[handle]
    BY <1>3, <1>5 DEF GInv, HandleInv
  <2>2. PICK t, f : t = disk[handle] /\ f = file OBVIOUS
  <2>3. Holds(f, t)' BY <1>6, <2>2 DEF GInv, ReadInv
  <2>4. Holds(file, disk[handle])'
    BY <1>1, <2>1, <2>2, <2>3 DEF Holds, IsManifest
  <2>5. reused' = reused /\ seen \subseteq seen'
    <3>1. at # "open" OBVIOUS
    <3>2. reused' = reused BY <1>2, <1>3, <3>1
    <3>3. QED BY <3>2
  <2>6. PiecesOf(history, file)' = PiecesOf(history, file) BY <1>1 DEF PiecesOf
  <2>7. \A q \in Paths \ {file} : dir'[q] # None => dir'[q].inode # handle
    BY <1>4, <2>1 DEF GInv, ReadInv
  <2>8. QED BY <1>1, <2>1, <2>4, <2>5, <2>6, <2>7 DEF GInv, ReadInv
<1>10. reused' \in BOOLEAN BY <1>2, <1>3
<1>11. QED
  BY <1>4, <1>5, <1>7, <1>8, <1>9, <1>10, ReleasesAre, PublishFrame

\* A file written where it is: what is new there is seen as well.
LEMMA WriteKeeps ==
  ASSUME GInv, NEW p \in Paths, NEW s \in ContentsOf(history, p), Write(p, s),
         UNCHANGED validator, at \in {"start", "inspect", "open", "read"},
         seen' = IF at \in {"open", "read"} THEN seen \cup Shown' ELSE seen
  PROVE  GInv'
<1>1. UNCHANGED <<at, file, handle, got, bytes, exit>> BY DEF validator
<1>2. /\ dir \in [Paths -> Entries \cup {None}]
      /\ disk \in [Inodes -> [Places -> Pieces]]
      /\ patched \in BOOLEAN /\ reused \in BOOLEAN /\ file \in Paths
      /\ pending \subseteq Paths
  BY DEF GInv, TypeOK
<1>3. /\ UNCHANGED <<history, release, pending, dir, reused>> /\ dir[p] # None
      /\ patched' = (patched \/ p = "manifest.json")
      /\ dir[p].inode \in Inodes
  BY <1>2 DEF Write, Entries
<1>4. /\ disk' \in [Inodes -> [Places -> Pieces]] /\ disk'[dir[p].inode] = s
      /\ \A j \in Inodes : j # dir[p].inode => disk'[j] = disk[j]
  BY <1>2, <1>3, ReleasesAre DEF Write
<1>5. Holds(p, s)'
  BY <1>3 DEF Holds, ContentsOf, PiecesOf
<1>6. \A q, t : Holds(q, t) => Holds(q, t)' BY <1>3, HoldsOn
<1>7. EntryInv'
  <2> SUFFICES ASSUME NEW q \in Paths, dir[q] # None
               PROVE  Holds(q, disk[dir[q].inode])'
    BY <1>3 DEF GInv, EntryInv
  <2>1. PICK t : t = disk'[dir[q].inode] OBVIOUS
  <2>2. Holds(q, t)'
    <3>1. CASE q = p BY <1>4, <1>5, <2>1, <3>1
    <3>2. CASE q # p
      <4>1. dir[q].inode \in Inodes /\ dir[q].inode # dir[p].inode
        BY <1>2, <1>3, <3>2 DEF Entries, GInv, EntryInv
      <4>2. t = disk[dir[q].inode] BY <1>4, <2>1, <4>1
      <4>3. QED BY <1>6, <4>2 DEF GInv, EntryInv
    <3>3. QED BY <3>1, <3>2
  <2>3. QED BY <1>3, <2>1, <2>2 DEF Holds, IsManifest
<1>8. HandleInv' BY <1>1, <1>3 DEF GInv, HandleInv, Regular
<1>9. ReadInv'
  <2> SUFFICES ASSUME at = "read" PROVE ReadInv' BY <1>1 DEF ReadInv
  <2>1. handle \in Inodes /\ seen \subseteq seen' /\ Shown' \subseteq seen'
    BY DEF GInv, HandleInv
  <2>2. PiecesOf(history, file)' = PiecesOf(history, file)
    BY <1>1, <1>3 DEF PiecesOf
  <2>3. PICK t, f : t = disk'[handle] /\ f = file OBVIOUS
  <2>4. CASE handle = dir[p].inode
    <3>1. file = p BY <1>3, <2>4 DEF GInv, ReadInv
    <3>2. t = s BY <1>4, <2>3, <2>4
    <3>3. Holds(file, disk[handle])'
      BY <1>1, <1>5, <2>3, <3>1, <3>2 DEF Holds, IsManifest
    <3>4. reused' \/ \A k \in Places : <<k, disk'[handle][k]>> \in seen'
      <4>1. reused \/ Regular(file)' BY <1>1, <1>3, <2>4, <3>1
        DEF GInv, HandleInv, Regular
      <4>2. Regular(file)' => \A k \in Places : <<k, disk'[handle][k]>> \in Shown'
        BY <1>1, <1>3, <2>4, <3>1 DEF Shown
      <4>3. QED BY <1>3, <2>1, <4>1, <4>2
    <3>5. file = "manifest.json" => patched' BY <1>3, <3>1
    <3>6. QED BY <1>1, <1>3, <2>1, <2>2, <3>3, <3>4, <3>5 DEF GInv, ReadInv
  <2>5. CASE handle # dir[p].inode
    <3>1. disk'[handle] = disk[handle] BY <1>4, <2>1, <2>5
    <3>2. Holds(f, t)' BY <1>6, <2>3, <3>1 DEF GInv, ReadInv
    <3>3. Holds(file, disk[handle])'
      BY <1>1, <2>3, <3>2 DEF Holds, IsManifest
    <3>4. QED BY <1>1, <1>3, <2>1, <2>2, <3>1, <3>3 DEF GInv, ReadInv
  <2>6. QED BY <2>4, <2>5
<1>10. patched' \in BOOLEAN /\ (patched => patched') BY <1>2, <1>3
<1>11. QED
  BY <1>2, <1>3, <1>4, <1>7, <1>8, <1>9, <1>10, ReleasesAre, PublishFrame

LEMMA RemoveKeeps ==
  ASSUME GInv, NEW p \in Paths, Remove(p),
         UNCHANGED validator, at \in {"start", "inspect", "open", "read"},
         seen' = IF at \in {"open", "read"} THEN seen \cup Shown' ELSE seen
  PROVE  GInv'
<1>1. UNCHANGED <<at, file, handle, got, bytes, exit>> BY DEF validator
<1>2. /\ UNCHANGED <<history, release, pending, disk, patched, reused>>
      /\ dir \in [Paths -> Entries \cup {None}]
      /\ dir' \in [Paths -> Entries \cup {None}]
      /\ \A q \in Paths : dir'[q] = IF q = p THEN None ELSE dir[q]
      /\ disk \in [Inodes -> [Places -> Pieces]] /\ pending \subseteq Paths
      /\ patched \in BOOLEAN /\ reused \in BOOLEAN /\ file \in Paths
  BY DEF GInv, TypeOK, Remove
<1>3. \A q, t : Holds(q, t)' <=> Holds(q, t)
  BY <1>2 DEF Holds, IsManifest, ContentsOf, PiecesOf, Released
<1>4. EntryInv'
  <2>1. \A q \in Paths : dir'[q] # None => Holds(q, disk[dir[q].inode])'
    <3> SUFFICES ASSUME NEW q \in Paths, dir'[q] # None
                 PROVE  Holds(q, disk[dir[q].inode])'
      OBVIOUS
    <3>1. dir'[q] = dir[q] BY <1>2
    <3>2. PICK t : t = disk[dir[q].inode] OBVIOUS
    <3>3. Holds(q, t)' BY <1>3, <3>1, <3>2 DEF GInv, EntryInv
    <3>4. disk'[dir'[q].inode] = t BY <1>2, <3>1, <3>2
    <3>5. QED BY <3>3, <3>4 DEF Holds, IsManifest
  <2>2. QED BY <1>2, <2>1 DEF GInv, EntryInv
<1>5. HandleInv' BY <1>1, <1>2 DEF GInv, HandleInv, Regular
<1>6. ReadInv'
  <2> SUFFICES ASSUME at = "read" PROVE ReadInv' BY <1>1 DEF ReadInv
  <2>1. Holds(file, disk[handle])'
    BY <1>1, <1>2 DEF GInv, ReadInv, Holds, IsManifest, ContentsOf, PiecesOf, Released
  <2>2. PiecesOf(history, file)' = PiecesOf(history, file)
    BY <1>1, <1>2 DEF PiecesOf
  <2>3. QED BY <1>1, <1>2, <2>1, <2>2 DEF GInv, ReadInv
<1>7. QED BY <1>2, <1>4, <1>5, <1>6, ReleasesAre, PublishFrame

LEMMA PublishKeeps == GInv /\ Publish => GInv'
<1> SUFFICES ASSUME GInv, Publish PROVE GInv' OBVIOUS
<1>1. /\ UNCHANGED validator /\ at \in {"start", "inspect", "open", "read"}
      /\ seen' = IF at \in {"open", "read"} THEN seen \cup Shown' ELSE seen
      /\ pending \subseteq Paths /\ patched \in BOOLEAN
  BY DEF Publish, GInv, TypeOK
<1>2. CASE BeginRelease
  <2>1. /\ UNCHANGED <<history, dir, disk, patched, reused>>
        /\ release' \in {release, release + 1} /\ release' <= Len(history)
        /\ pending' \subseteq Paths
    BY <1>2, ReleasesAre DEF BeginRelease
  <2>2. QED BY <1>1, <2>1, NothingMoves
<1>3. ASSUME NEW p \in Paths, NEW i \in Inodes, NEW kind \in {"file", "link"},
             Replace(p, kind, i)
      PROVE  GInv'
  <2>1. PICK s : s = Released(release, p) OBVIOUS
  <2>2. /\ Put(p, kind, i, s) /\ UNCHANGED <<history, release, patched>>
        /\ pending' \subseteq Paths
    BY <1>1, <1>3, <2>1 DEF Replace
  <2>3. Holds(p, s) BY <2>1, ReleaseHolds
  <2>4. Holds(p, s)' BY <2>2, <2>3, HoldsOn
  <2>5. QED BY <1>1, <2>2, <2>3, <2>4, PutKeeps DEF Holds
<1>4. ASSUME NEW p \in Paths, NEW i \in Inodes, Create(p, i) PROVE GInv'
  <2>1. PICK s : s = Nothing OBVIOUS
  <2>2. /\ Put(p, "file", i, s) /\ UNCHANGED <<history, release, pending>>
        /\ patched' = (patched \/ p = "manifest.json")
    BY <1>4, <2>1 DEF Create
  <2>3. s \in ContentsOf(history, p) BY <2>1, ReleasesAre
  <2>4. Holds(p, s)' BY <2>2, <2>3 DEF Holds, ContentsOf, PiecesOf
  <2>5. QED BY <1>1, <2>2, <2>3, <2>4, PutKeeps
<1>5. ASSUME NEW p \in Paths, Remove(p) PROVE GInv'
  BY <1>1, <1>5, RemoveKeeps
<1>6. ASSUME NEW p \in Paths, Truncate(p) PROVE GInv'
  BY <1>1, <1>6, ReleasesAre, WriteKeeps DEF Truncate
<1>7. ASSUME NEW p \in Paths, NEW k \in Places, WritePiece(p, k) PROVE GInv'
  <2>1. PICK s : s = [disk[dir[p].inode] EXCEPT ![k] = history[release][p]]
    OBVIOUS
  <2>2. Write(p, s) /\ dir[p] # None BY <1>7, <2>1 DEF WritePiece
  <2>3. disk[dir[p].inode] \in ContentsOf(history, p)
    BY <2>2 DEF GInv, EntryInv, Holds
  <2>4. history[release][p] \in PiecesOf(history, p)
    BY ReleasesAre
  <2>5. s \in ContentsOf(history, p) BY <2>1, <2>3, <2>4 DEF ContentsOf
  <2>6. QED BY <1>1, <2>2, <2>5, WriteKeeps
<1>8. ASSUME NEW p \in Paths, Finish(p) PROVE GInv'
  <2>1. /\ UNCHANGED <<history, release, dir, disk, patched, reused>>
        /\ pending' \subseteq Paths
    BY <1>1, <1>8 DEF Finish
  <2>2. QED BY <1>1, <2>1, ReleasesAre, NothingMoves
<1>9. QED BY <1>2, <1>3, <1>4, <1>5, <1>6, <1>7, <1>8 DEF Publish

-----------------------------------------------------------------------------
(* The validator *)

\* A step of the validator leaves the directory and the files alone.
LEMMA FilesStay ==
  ASSUME UNCHANGED published
  PROVE  /\ UNCHANGED <<history, release, pending, dir, disk, patched>>
         /\ UNCHANGED <<Pieces, Entries>>
         /\ \A p : PiecesOf(history, p)' = PiecesOf(history, p)
         /\ \A p, s : Holds(p, s)' <=> Holds(p, s)
<1>1. UNCHANGED <<history, release, pending, dir, disk, patched>>
  BY DEF published
<1>2. \A p : PiecesOf(history, p)' = PiecesOf(history, p) BY <1>1 DEF PiecesOf
<1>3. \A p, s : Holds(p, s)' <=> Holds(p, s)
  BY <1>1 DEF Holds, IsManifest, ContentsOf, PiecesOf, Released
<1>4. UNCHANGED <<Pieces, Entries>> BY <1>1 DEF Pieces, PiecesOf, Entries
<1>5. QED BY <1>1, <1>2, <1>3, <1>4

LEMMA ValidatorFrame ==
  ASSUME GInv, UNCHANGED published,
         TypeOK', SeenInv', HandleInv', ReadInv', StageInv', BytesInv',
         (Accepted => Checked)'
  PROVE  GInv'
<1>1. UNCHANGED <<history, release, dir, disk, patched>> BY FilesStay
<1>2. EntryInv'
  BY <1>1 DEF GInv, EntryInv, Holds, IsManifest, ContentsOf, PiecesOf, Released
<1>3. QED BY <1>1, <1>2 DEF GInv

\* What has been read before stays what it was.
LEMMA BytesKept ==
  ASSUME GInv, UNCHANGED published, UNCHANGED bytes,
         at' # "exit" \/ exit' = 0 => at # "exit" \/ exit = 0
  PROVE  BytesInv'
<1> SUFFICES ASSUME NEW p \in Paths, bytes[p] # None
             PROVE  /\ Holds(p, bytes[p])'
                    /\ at' # "exit" \/ exit' = 0 => Decoded(bytes[p]) # None
  BY DEF BytesInv
<1>1. PICK s : s = bytes[p] OBVIOUS
<1>2. Holds(p, s)' BY <1>1, FilesStay DEF GInv, BytesInv
<1>3. bytes'[p] = s BY <1>1
<1>4. Holds(p, bytes[p])' BY <1>2, <1>3 DEF Holds, IsManifest
<1>5. at # "exit" \/ exit = 0 => Decoded(bytes[p]) # None
  BY DEF GInv, BytesInv
<1>6. QED BY <1>4, <1>5

\* A validator that ends with an error claims nothing.
LEMMA ErrorKeeps ==
  ASSUME GInv, UNCHANGED published, NEW code \in {1, 2}, Exit(code),
         file' \in Paths, handle' \in Inodes \cup {None},
         got' \in Seq(Pieces), Len(got') <= Size, reused' \in BOOLEAN,
         bytes' \in [Paths -> [Places -> Pieces] \cup {None}],
         BytesInv'
  PROVE  GInv'
<1>1. UNCHANGED <<history, release, pending, dir, disk, patched, Pieces, Entries>>
  BY FilesStay
<1>2. at' = "exit" /\ exit' = code BY DEF Exit
<1>3. TypeOK' BY <1>1, <1>2 DEF GInv, TypeOK
<1>4. SeenInv' /\ HandleInv' /\ ReadInv' /\ StageInv'
  BY <1>2 DEF SeenInv, HandleInv, ReadInv, StageInv
<1>5. (Accepted => Checked)' BY <1>2 DEF Accepted
<1>6. QED BY <1>3, <1>4, <1>5, ValidatorFrame

\* The types that a step before the checks needs.
LEMMA Reading ==
  ASSUME GInv, at \in {"start", "inspect", "open", "read"}
  PROVE  /\ file \in Paths /\ handle \in Inodes \cup {None}
         /\ got \in Seq(Pieces) /\ Len(got) <= Size /\ Len(got) \in Nat
         /\ reused \in BOOLEAN /\ exit = None
         /\ bytes \in [Paths -> [Places -> Pieces] \cup {None}]
         /\ dir \in [Paths -> Entries \cup {None}]
         /\ disk \in [Inodes -> [Places -> Pieces]]
BY DEF GInv, TypeOK

LEMMA StartKeeps == GInv /\ Start => GInv'
<1> SUFFICES ASSUME GInv, Start PROVE GInv' OBVIOUS
<1>1. /\ UNCHANGED published /\ UNCHANGED <<file, handle, got, bytes, seen, reused>>
      /\ at = "start"
  BY DEF Start
<1>2. CASE Exit(2)
  BY <1>1, <1>2, Reading, BytesKept, FilesStay, ErrorKeeps DEF Exit
<1>3. CASE at' = "inspect" /\ UNCHANGED exit
  <2>1. TypeOK' BY <1>1, <1>3, Reading, FilesStay DEF GInv, TypeOK
  <2>2. SeenInv' /\ HandleInv' /\ ReadInv'
    BY <1>3 DEF SeenInv, HandleInv, ReadInv
  <2>3. StageInv' BY <1>1, <1>3, Reading DEF GInv, StageInv
  <2>4. BytesInv' BY <1>1, BytesKept
  <2>5. (Accepted => Checked)' BY <1>1, <1>3, Reading DEF Accepted
  <2>6. QED BY <1>1, <2>1, <2>2, <2>3, <2>4, <2>5, ValidatorFrame
<1>4. QED BY <1>2, <1>3 DEF Start

LEMMA InspectKeeps == GInv /\ Inspect => GInv'
<1> SUFFICES ASSUME GInv, Inspect PROVE GInv' OBVIOUS
<1>1. /\ UNCHANGED published /\ UNCHANGED <<file, got, bytes>>
      /\ at = "inspect" /\ seen' = Shown /\ reused' = FALSE
  BY DEF Inspect
<1>2. UNCHANGED <<dir, disk, Shown>> BY <1>1, FilesStay DEF Shown, Regular
<1>3. BytesInv' BY <1>1, BytesKept
<1>4. CASE ~Regular(file)
  BY <1>1, <1>3, <1>4, Reading, FilesStay, ErrorKeeps DEF Inspect
<1>5. CASE Regular(file)
  <2>1. /\ at' = "open" /\ handle' = dir[file].inode /\ exit' = exit
        /\ handle' \in Inodes
    BY <1>1, <1>5, Reading DEF Inspect, Regular, Entries
  <2>2. TypeOK' BY <1>1, <2>1, Reading, FilesStay DEF GInv, TypeOK
  <2>3. SeenInv' BY <1>1, <1>2 DEF SeenInv
  <2>4. HandleInv' BY <1>1, <1>2, <1>5, <2>1 DEF HandleInv, Regular
  <2>5. ReadInv' BY <2>1 DEF ReadInv
  <2>6. StageInv' BY <1>1, <2>1, Reading DEF GInv, StageInv
  <2>7. (Accepted => Checked)' BY <1>1, <2>1, Reading DEF Accepted
  <2>8. QED BY <1>1, <1>3, <2>2, <2>3, <2>4, <2>5, <2>6, <2>7, ValidatorFrame
<1>6. QED BY <1>4, <1>5

\* What is opened is the file of the path, and what it holds was there.
LEMMA OpenKeeps == GInv /\ Open => GInv'
<1> SUFFICES ASSUME GInv, Open PROVE GInv' OBVIOUS
<1>1. /\ UNCHANGED published /\ UNCHANGED <<file, handle, got, bytes, seen, reused>>
      /\ at = "open"
  BY DEF Open
<1>2. UNCHANGED <<dir, disk, Shown>> BY <1>1, FilesStay DEF Shown, Regular
<1>3. BytesInv' BY <1>1, BytesKept DEF Open
<1>4. CASE Exit(1) BY <1>1, <1>3, <1>4, Reading, FilesStay, ErrorKeeps
<1>5. CASE dir[file] # None /\ dir[file].inode = handle /\ at' = "read"
           /\ UNCHANGED exit
  <2>1. TypeOK' BY <1>1, <1>5, Reading, FilesStay DEF GInv, TypeOK
  <2>2. SeenInv' BY <1>1, <1>2 DEF GInv, SeenInv
  <2>3. HandleInv' BY <1>1, <1>2 DEF GInv, HandleInv, Regular
  <2>4. ReadInv'
    <3>1. PICK f, s : f = file /\ s = disk[handle] OBVIOUS
    <3>2. Holds(f, s)' BY <1>1, <1>5, <3>1, Reading, FilesStay DEF GInv, EntryInv
    <3>3. Holds(file, disk[handle])'
      BY <1>1, <1>2, <3>1, <3>2 DEF Holds, IsManifest
    <3>4. \A q \in Paths \ {file} : dir[q] # None => dir[q].inode # handle
      BY <1>1, <1>5, Reading DEF GInv, EntryInv
    <3>5. got = <<>> BY <1>1 DEF GInv, StageInv
    <3>6. reused \/ \A k \in Places : <<k, disk[handle][k]>> \in seen
      <4>1. reused \/ Regular(file) BY <1>1, <1>5 DEF GInv, HandleInv
      <4>2. Shown \subseteq seen BY <1>1 DEF GInv, SeenInv
      <4>3. QED BY <1>5, <4>1, <4>2 DEF Shown
    <3>7. got' \in Seq(PiecesOf(history, file)') /\ \A k \in 1..Len(got') : FALSE
      BY <1>1, <3>5
    <3>8. QED BY <1>1, <1>2, <3>3, <3>4, <3>6, <3>7 DEF ReadInv
  <2>5. StageInv' BY <1>1, <1>5, Reading DEF GInv, StageInv
  <2>6. (Accepted => Checked)' BY <1>1, <1>5, Reading DEF Accepted
  <2>7. QED BY <1>1, <1>3, <2>1, <2>2, <2>3, <2>4, <2>5, <2>6, ValidatorFrame
<1>6. QED BY <1>4, <1>5 DEF Open

(***************************************************************************)
(* ReadKeeps: one piece more of the file that is open, which holds it at   *)
(* this place now, whatever it held when the pieces before were read.      *)
(***************************************************************************)
LEMMA ReadKeeps == GInv /\ Read => GInv'
<1> SUFFICES ASSUME GInv, Read PROVE GInv' OBVIOUS
<1>1. /\ UNCHANGED published /\ UNCHANGED <<file, handle, bytes, seen, reused>>
      /\ at = "read" /\ Len(got) < Size
  BY DEF Read
<1>2. UNCHANGED <<dir, disk, Shown>> BY <1>1, FilesStay DEF Shown, Regular
<1>3. BytesInv' BY <1>1, BytesKept, Reading DEF Read
<1>4. CASE Exit(1) /\ UNCHANGED got
  BY <1>1, <1>3, <1>4, Reading, FilesStay, ErrorKeeps
<1>5. CASE got' = Append(got, disk[handle][Len(got) + 1]) /\ UNCHANGED <<at, exit>>
  <2>1. PICK f, s, n : f = file /\ s = disk[handle] /\ n = Len(got) + 1 OBVIOUS
  <2>2. /\ Holds(f, s) /\ s \in [Places -> PiecesOf(history, file)]
        /\ got \in Seq(PiecesOf(history, file))
    BY <1>1, <2>1 DEF GInv, ReadInv, Holds, ContentsOf
  <2>3. n \in Places /\ n \in Nat /\ n = Len(got) + 1
    BY <1>1, <2>1, Reading, SizeAssumption DEF Places
  <2>4. s[n] \in PiecesOf(history, file) /\ s[n] \in Pieces
    BY <1>1, <2>2, <2>3, Reading, ReleasesAre
  <2>5. got' = Append(got, s[n]) BY <1>5, <2>1
  <2>6. got' \in Seq(Pieces) /\ got' \in Seq(PiecesOf(history, file))
    BY <1>1, <2>2, <2>4, <2>5, Reading
  <2>7. /\ Len(got') = n /\ got'[n] = s[n] /\ Len(got') <= Size
        /\ \A k \in 1..Len(got') : k = n \/ (k \in 1..Len(got) /\ got'[k] = got[k])
    BY <1>1, <2>1, <2>2, <2>3, <2>5, Reading, SizeAssumption
  <2>8. TypeOK' BY <1>1, <1>5, <2>6, <2>7, Reading, FilesStay DEF GInv, TypeOK
  <2>9. SeenInv' BY <1>1, <1>2, <1>5 DEF GInv, SeenInv
  <2>10. HandleInv' BY <1>1, <1>2, <1>5 DEF GInv, HandleInv, Regular
  <2>11. ReadInv'
    <3>1. Holds(f, s)' BY <1>1, <2>2, FilesStay
    <3>2. Holds(file, disk[handle])'
      BY <1>1, <1>2, <2>1, <3>1 DEF Holds, IsManifest
    <3>3. \A q \in Paths \ {file} : dir[q] # None => dir[q].inode # handle
      BY <1>1 DEF GInv, ReadInv
    <3>4. PiecesOf(history, file)' = PiecesOf(history, file)
      BY <1>1, FilesStay DEF PiecesOf
    <3>5. reused \/ \A k \in Places : <<k, disk[handle][k]>> \in seen
      BY <1>1 DEF GInv, ReadInv
    <3>6. reused \/ \A k \in 1..Len(got') : <<k, got'[k]>> \in seen
      BY <1>1, <2>1, <2>3, <2>7, <3>5 DEF GInv, ReadInv
    <3>7. ASSUME file = "manifest.json", ~patched
          PROVE  \A k \in 1..Len(got') : got'[k] = disk[handle][k]
      BY <1>1, <2>1, <2>7, <3>7 DEF GInv, ReadInv
    <3>8. UNCHANGED patched BY <1>1, FilesStay
    <3>9. QED
      BY <1>1, <1>2, <2>6, <3>2, <3>3, <3>4, <3>5, <3>6, <3>7, <3>8 DEF ReadInv
  <2>12. StageInv' BY <1>1, <1>5, Reading DEF GInv, StageInv
  <2>13. (Accepted => Checked)' BY <1>1, <1>5, Reading DEF Accepted
  <2>14. QED
    BY <1>1, <1>3, <2>8, <2>9, <2>10, <2>11, <2>12, <2>13, ValidatorFrame
<1>6. QED BY <1>4, <1>5 DEF Read

\* What a whole file has been read to be is what such a file may hold.
LEMMA ReadHolds ==
  ASSUME GInv, at = "read", Len(got) = Size
  PROVE  Holds(file, got) /\ got # None /\ got \in [Places -> Pieces]
<1>1. got \in Seq(PiecesOf(history, file)) BY DEF GInv, ReadInv
<1>2. got \in [Places -> PiecesOf(history, file)] BY <1>1 DEF Places
<1>3. got \in ContentsOf(history, file) BY <1>2 DEF ContentsOf
<1>4. got # None /\ got \in [Places -> Pieces] BY <1>3, Reading, ReleasesAre
<1>5. ASSUME file = "manifest.json", ~patched PROVE IsManifest(got)
  <2>1. IsManifest(disk[handle]) BY <1>5 DEF GInv, ReadInv, Holds
  <2>2. \A k \in Places : got[k] = disk[handle][k]
    BY <1>5 DEF GInv, ReadInv, Places
  <2>3. disk[handle] \in [Places -> Pieces] BY Reading DEF GInv, HandleInv
  <2>4. got = disk[handle] BY <1>4, <2>2, <2>3
  <2>5. QED BY <2>1, <2>4
<1>6. QED BY <1>3, <1>4, <1>5 DEF Holds

LEMMA DecodeKeeps == GInv /\ Decode => GInv'
<1> SUFFICES ASSUME GInv, Decode PROVE GInv' OBVIOUS
<1>1. /\ UNCHANGED published /\ UNCHANGED <<seen, reused>>
      /\ at = "read" /\ Len(got) = Size
      /\ bytes' = [bytes EXCEPT ![file] = got]
      /\ handle' = None /\ got' = <<>>
      /\ file' = IF file = "manifest.json" THEN "quality-gates.json"
                 ELSE "cases.json"
  BY DEF Decode
<1>2. /\ file' \in Paths /\ got' \in Seq(Pieces) /\ Len(got') <= Size
      /\ exit = None
  BY <1>1, Reading, SizeAssumption DEF Paths
<1>3. /\ Holds(file, got) /\ got # None
      /\ bytes' \in [Paths -> [Places -> Pieces] \cup {None}]
      /\ bytes'[file] = got
      /\ \A p \in Paths : p # file => bytes'[p] = bytes[p]
  BY <1>1, Reading, ReadHolds
<1>4. \A p \in Paths : bytes'[p] # None => Holds(p, bytes[p])'
  <2> SUFFICES ASSUME NEW p \in Paths, bytes'[p] # None
               PROVE  Holds(p, bytes[p])'
    OBVIOUS
  <2>1. PICK s : s = bytes'[p] OBVIOUS
  <2>2. Holds(p, s)' BY <1>1, <1>3, <2>1, FilesStay DEF GInv, BytesInv
  <2>3. QED BY <2>1, <2>2 DEF Holds, IsManifest
<1>5. CASE Exit(1)
  <2>1. BytesInv' BY <1>4, <1>5 DEF BytesInv, Exit
  <2>2. QED BY <1>1, <1>2, <1>3, <1>5, <2>1, Reading, FilesStay, ErrorKeeps
<1>6. CASE /\ Decoded(got) # None /\ UNCHANGED exit
           /\ at' = IF file = "cases.json" THEN "check" ELSE "inspect"
  <2>1. BytesInv'
    <3>1. \A p \in Paths : bytes[p] # None => Decoded(bytes[p]) # None
      BY <1>1 DEF GInv, BytesInv
    <3>2. \A p \in Paths : bytes'[p] # None => Decoded(bytes'[p]) # None
      BY <1>3, <1>6, <3>1
    <3>3. QED BY <1>4, <3>2 DEF BytesInv
  <2>2. StageInv'
    <3>1. /\ file # "manifest.json" => bytes["manifest.json"] # None
          /\ file = "cases.json" => bytes["quality-gates.json"] # None
      BY <1>1 DEF GInv, StageInv
    <3>2. at' \in {"check", "inspect"} /\ (at' = "check" <=> file = "cases.json")
      BY <1>6
    <3>3. bytes'["manifest.json"] # None BY <1>3, <3>1 DEF Paths
    <3>4. file' = "cases.json" => bytes'["quality-gates.json"] # None
      BY <1>1, <1>3, <3>1, Reading DEF Paths
    <3>5. file = "cases.json" => \A p \in Paths : bytes'[p] # None
      BY <1>3, <3>1 DEF Paths
    <3>6. QED BY <1>1, <1>2, <1>6, <3>2, <3>3, <3>4, <3>5 DEF StageInv
  <2>3. TypeOK'
    <3>1. at' = "check" => bytes' \in [Paths -> [Places -> Pieces]]
      BY <1>3, <2>2 DEF StageInv
    <3>2. QED BY <1>1, <1>2, <1>3, <1>6, <3>1, Reading, FilesStay
      DEF GInv, TypeOK
  <2>4. SeenInv' /\ HandleInv' /\ ReadInv'
    BY <1>6 DEF SeenInv, HandleInv, ReadInv
  <2>5. (Accepted => Checked)' BY <1>2, <1>6 DEF Accepted
  <2>6. QED BY <1>1, <2>1, <2>2, <2>3, <2>4, <2>5, ValidatorFrame
<1>7. QED BY <1>5, <1>6 DEF Decode

LEMMA CheckKeeps == GInv /\ Check => GInv'
<1> SUFFICES ASSUME GInv, Check PROVE GInv' OBVIOUS
<1>1. /\ UNCHANGED published /\ UNCHANGED <<file, handle, got, bytes, seen, reused>>
      /\ at = "check"
  BY DEF Check
<1>2. /\ file \in Paths /\ handle \in Inodes \cup {None}
      /\ got \in Seq(Pieces) /\ Len(got) <= Size /\ reused \in BOOLEAN
      /\ exit = None /\ bytes \in [Paths -> [Places -> Pieces] \cup {None}]
  BY <1>1 DEF GInv, TypeOK
<1>3. BytesInv' BY <1>1, BytesKept
<1>4. CASE Exit(1) BY <1>1, <1>2, <1>3, <1>4, FilesStay, ErrorKeeps
<1>5. CASE Checked /\ at' = "report" /\ UNCHANGED exit
  <2>1. TypeOK' BY <1>1, <1>5, FilesStay DEF GInv, TypeOK
  <2>2. SeenInv' /\ HandleInv' /\ ReadInv'
    BY <1>5 DEF SeenInv, HandleInv, ReadInv
  <2>3. StageInv' BY <1>1, <1>5 DEF GInv, StageInv
  <2>4. (Accepted => Checked)' BY <1>1, <1>5 DEF Checked
  <2>5. QED BY <1>1, <1>3, <2>1, <2>2, <2>3, <2>4, ValidatorFrame
<1>6. QED BY <1>4, <1>5 DEF Check, Checked

LEMMA ReportKeeps == GInv /\ Report => GInv'
<1> SUFFICES ASSUME GInv, Report PROVE GInv' OBVIOUS
<1>1. /\ UNCHANGED published /\ UNCHANGED <<file, handle, got, bytes, seen, reused>>
      /\ at = "report" /\ at' = "exit" /\ exit' \in {0, 1}
  BY DEF Report, Exit
<1>2. BytesInv' BY <1>1, BytesKept
<1>3. TypeOK' BY <1>1, FilesStay DEF GInv, TypeOK
<1>4. SeenInv' /\ HandleInv' /\ ReadInv'
  BY <1>1 DEF SeenInv, HandleInv, ReadInv
<1>5. StageInv' BY <1>1 DEF GInv, StageInv
<1>6. (Accepted => Checked)' BY <1>1 DEF GInv, Accepted, Checked
<1>7. QED BY <1>1, <1>2, <1>3, <1>4, <1>5, <1>6, ValidatorFrame

-----------------------------------------------------------------------------
(* What the checks come to *)

\* Values that a scan for repetitions has accepted are as many as their
\* positions, and none is empty.
LEMMA NoDuplicates ==
  ASSUME NEW n \in Nat, NEW f, f = [k \in 1..n |-> f[k]], Len(f) = n,
         ~hasDuplicates(f)
  PROVE  LET T == {f[k] : k \in 1..n} IN
         IsFiniteSet(T) /\ Cardinality(T) = n /\ "" \notin T
<1> DEFINE T == {f[k] : k \in 1..n}
<1>1. \A k \in 1..n : f[k] # "" /\ \A j \in 1..k - 1 : f[j] # f[k]
  BY DEF hasDuplicates, Repeats
<1>2. \A j, k \in 1..n : f[j] = f[k] => j = k
  <2> SUFFICES ASSUME NEW j \in 1..n, NEW k \in 1..n, f[j] = f[k] PROVE j = k
    OBVIOUS
  <2>1. ~(j < k)
    <3>1. j < k => j \in 1..k - 1 OBVIOUS
    <3>2. QED BY <1>1, <3>1
  <2>2. ~(k < j)
    <3>1. k < j => k \in 1..j - 1 OBVIOUS
    <3>2. QED BY <1>1, <3>1
  <2>3. QED BY <2>1, <2>2
<1>3. f \in Bijection(1..n, T)
  <2>1. f \in [1..n -> T] OBVIOUS
  <2>2. f \in Injection(1..n, T) BY <1>2, <2>1 DEF Injection, IsInjective
  <2>3. f \in Surjection(1..n, T) BY <2>1 DEF Surjection
  <2>4. QED BY <2>2, <2>3 DEF Bijection
<1>4. ExistsBijection(1..n, T) BY <1>3 DEF ExistsBijection
<1>5. IsFiniteSet(1..n) /\ Cardinality(1..n) = n
  <2>1. 1 \in Int /\ n \in Int OBVIOUS
  <2>2. Cardinality(1..n) = IF 1 > n THEN 0 ELSE n - 1 + 1
    BY <2>1, FS_Interval
  <2>3. QED BY <2>1, <2>2, FS_Interval
<1>6. IsFiniteSet(T) /\ Cardinality(T) = n
  BY <1>4, <1>5, FS_Bijection
<1>7. QED BY <1>1, <1>6

\* The same for one field of the elements of a list.
LEMMA DistinctFields ==
  ASSUME NEW S, NEW s \in Seq(S), NEW f,
         f = [k \in 1..Len(s) |-> f[k]], ~hasDuplicates(f)
  PROVE  LET T == {f[k] : k \in 1..Len(s)} IN
         IsFiniteSet(T) /\ Cardinality(T) = Len(s) /\ "" \notin T
<1>1. Len(s) \in Nat OBVIOUS
<1>2. Len(f) = Len(s)
  <2>1. f \in [1..Len(s) -> {f[k] : k \in 1..Len(s)}] OBVIOUS
  <2>2. f \in Seq({f[k] : k \in 1..Len(s)}) BY <1>1, <2>1, SeqDef
  <2>3. DOMAIN f = 1..Len(f) /\ Len(f) \in Nat BY <2>2
  <2>4. DOMAIN f = 1..Len(s) BY <2>1
  <2>5. QED BY <1>1, <2>3, <2>4
<1>3. QED BY <1>1, <1>2, NoDuplicates

LEMMA DistinctIds ==
  ASSUME NEW S, NEW s \in Seq(S),
         ~hasDuplicates([k \in 1..Len(s) |-> s[k].id])
  PROVE  LET T == {item.id : item \in At(s)} IN
         IsFiniteSet(T) /\ Cardinality(T) = Len(s) /\ "" \notin T
<1> DEFINE f == [k \in 1..Len(s) |-> s[k].id]
           T == {item.id : item \in At(s)}
<1>1. T = {f[k] : k \in 1..Len(s)} BY DEF At
<1>2. f = [k \in 1..Len(s) |-> f[k]] /\ ~hasDuplicates(f) OBVIOUS
<1> HIDE DEF f, T
<1>3. IsFiniteSet(T) /\ Cardinality(T) = Len(s) /\ "" \notin T
  BY <1>1, <1>2, DistinctFields
<1>4. QED BY <1>3 DEF T

\* Disjoint finite sets have as many elements together as both of them.
LEMMA DisjointUnion ==
  ASSUME NEW S, NEW T, IsFiniteSet(S), IsFiniteSet(T), S \cap T = {}
  PROVE  Cardinality(S \cup T) = Cardinality(S) + Cardinality(T)
<1>1. Cardinality(S \cap T) = 0 BY FS_EmptySet
<1>2. Cardinality(S) \in Nat /\ Cardinality(T) \in Nat BY FS_CardinalityType
<1>3. Cardinality(S \cup T) =
        Cardinality(S) + Cardinality(T) - Cardinality(S \cap T)
  BY FS_Union
<1>4. QED BY <1>1, <1>2, <1>3

\* Unique ids, none of them excluded, and counts that add up make the
\* accepted and the excluded cases a partition of those of the source.
LEMMA CountsPartition ==
  ASSUME NEW m, NEW c,
         m.excluded \in Seq(At(m.excluded)), c.cases \in Seq(At(c.cases)),
         ~hasDuplicates([k \in 1..Len(m.excluded) |-> m.excluded[k].id]),
         idsValid(m, c),
         m.source.case_count = m.accepted.case_count + Len(m.excluded),
         Len(c.cases) = m.accepted.case_count
  PROVE  Partitioned(m, c)
<1> DEFINE ids == {item.id : item \in At(c.cases)}
           out == {x.id : x \in At(m.excluded)}
<1>1. IsFiniteSet(ids) /\ Cardinality(ids) = Len(c.cases) /\ "" \notin ids
  BY DistinctIds DEF idsValid
<1>2. IsFiniteSet(out) /\ Cardinality(out) = Len(m.excluded) /\ "" \notin out
  BY DistinctIds
<1>3. ids \cap out = {}
  BY DEF idsValid
<1>4. Cardinality(ids \cup out) = Len(c.cases) + Len(m.excluded)
  <2>1. Cardinality(ids \cup out) = Cardinality(ids) + Cardinality(out)
    BY <1>1, <1>2, <1>3, DisjointUnion
  <2> HIDE DEF ids, out
  <2>2. QED BY <1>1, <1>2, <2>1
<1>5. "" \notin ids \cup out BY <1>1, <1>2
<1>6. QED BY <1>1, <1>2, <1>3, <1>4, <1>5 DEF Partitioned

\* A metric that no earlier gate has, and all of them covered: each once.
LEMMA MetricsGated ==
  ASSUME NEW g, g.metrics \in Seq(At(g.metrics)),
         \A k \in 1..Len(g.metrics) : metricValid(g, k),
         {metric.key : metric \in At(g.metrics)} = DOMAIN requiredMetrics,
         mappingValid(g.verentir_mapping)
  PROVE  Gated(g)
<1> SUFFICES ASSUME NEW key \in DOMAIN requiredMetrics
             PROVE /\ Cardinality({k \in 1..Len(g.metrics) : g.metrics[k].key = key}) = 1
                   /\ key \in DOMAIN g.verentir_mapping.metrics
  BY DEF Gated
<1>1. PICK k \in 1..Len(g.metrics) : g.metrics[k].key = key
  <2>1. PICK metric \in At(g.metrics) : metric.key = key OBVIOUS
  <2>2. PICK k \in 1..Len(g.metrics) : metric = g.metrics[k] BY <2>1 DEF At
  <2>3. QED BY <2>1, <2>2
<1>2. ASSUME NEW j \in 1..Len(g.metrics), g.metrics[j].key = key PROVE j = k
  <2>0. Len(g.metrics) \in Nat OBVIOUS
  <2>1. ~(j < k)
    <3>1. j < k => j \in 1..k - 1 BY <2>0
    <3>2. QED BY <1>1, <1>2, <3>1 DEF metricValid
  <2>2. ~(k < j)
    <3>1. k < j => k \in 1..j - 1 BY <2>0
    <3>2. QED BY <1>1, <1>2, <3>1 DEF metricValid
  <2>3. QED BY <2>0, <2>1, <2>2
<1>3. {j \in 1..Len(g.metrics) : g.metrics[j].key = key} = {k}
  BY <1>1, <1>2
<1>4. Cardinality({k}) = 1 BY FS_Singleton
<1>5. QED BY <1>3, <1>4 DEF mappingValid

\* What an accepted suite was decoded from, and that its lists are lists.
LEMMA AcceptedDocuments ==
  ASSUME GInv, Accepted
  PROVE  /\ \A p \in Paths : bytes[p] # None
         /\ Decoded(bytes["manifest.json"]).excluded
              \in Seq(At(Decoded(bytes["manifest.json"]).excluded))
         /\ Decoded(bytes["quality-gates.json"]).metrics
              \in Seq(At(Decoded(bytes["quality-gates.json"]).metrics))
         /\ Decoded(bytes["cases.json"]).cases
              \in Seq(At(Decoded(bytes["cases.json"]).cases))
<1>1. \A p \in Paths : bytes[p] # None
  BY DEF GInv, StageInv, Accepted
<1>2. at # "exit" \/ exit = 0 BY DEF Accepted
<1>3. \A p \in Paths : /\ Decoded(bytes[p]) # None
                       /\ bytes[p] \in ContentsOf(history, p)
  BY <1>1, <1>2 DEF GInv, BytesInv, Holds
<1>4. history \in Histories BY ReleasesAre
<1>5. QED BY <1>1, <1>3, <1>4, ListsAssumption DEF Paths

(***************************************************************************)
(* CheckedSound: the three functions of checks together establish what     *)
(* AcceptedIsSound says of the suite.                                      *)
(***************************************************************************)
LEMMA CheckedSound == GInv => AcceptedIsSound
<1> SUFFICES ASSUME GInv, Accepted PROVE AcceptedIsSound
  BY DEF AcceptedIsSound
<1> DEFINE m == Decoded(bytes["manifest.json"])
           g == Decoded(bytes["quality-gates.json"])
           c == Decoded(bytes["cases.json"])
           inputs == {item.input.normal : item \in At(c.cases)}
           f == [k \in 1..Len(c.cases) |-> c.cases[k].input.normal]
<1>1. /\ validateManifest(m, bytes["quality-gates.json"], bytes["cases.json"])
      /\ validateQualityGates(m, g)
      /\ validateCaseSet(m, g, c)
  BY DEF GInv, Checked
<1>2. /\ m.excluded \in Seq(At(m.excluded)) /\ g.metrics \in Seq(At(g.metrics))
      /\ c.cases \in Seq(At(c.cases))
  BY AcceptedDocuments
<1> HIDE DEF m, g, c
<1>3. Partitioned(m, c)
  BY <1>1, <1>2, CountsPartition DEF validateManifest, validateCaseSet
<1>4. Cardinality(inputs) = Len(c.cases)
  <2>1. inputs = {f[k] : k \in 1..Len(c.cases)} BY DEF At
  <2>2. f = [k \in 1..Len(c.cases) |-> f[k]] /\ ~hasDuplicates(f)
    BY <1>1 DEF validateCaseSet
  <2> HIDE DEF f, inputs
  <2>3. QED BY <1>2, <2>1, <2>2, DistinctFields
<1>5. g.minimum_evaluated_cases \in 1..Cardinality(inputs)
  BY <1>1, <1>4 DEF validateQualityGates, validateCaseSet
<1>6. Gated(g)
  BY <1>1, <1>2, MetricsGated DEF validateQualityGates
<1>7. \A item \in At(c.cases) : \A d \in At(item.evidence_document_ids) :
        d \notin At(m.blocked)
  BY <1>1 DEF validateCaseSet, caseValid, evidenceValid
<1>8. m.signing_trust_anchor_status = "pending" <=>
        g.verentir_mapping.result_signing_public_key = None
  BY <1>1 DEF validateQualityGates, signingKeyValid
<1>9. ~m.rollout_authorized /\ g.public_rollout_approval_required
  BY <1>1 DEF validateManifest, validateQualityGates
<1>10. QED
  BY <1>3, <1>4, <1>5, <1>6, <1>7, <1>8, <1>9 DEF AcceptedIsSound, m, g, c

-----------------------------------------------------------------------------
(* The theorems *)

LEMMA GInvStarts == Init => GInv
<1> SUFFICES ASSUME Init PROVE GInv OBVIOUS
<1>1. /\ history \in Histories /\ release = 1 /\ pending = {}
      /\ patched = FALSE /\ at = "start" /\ file = "manifest.json"
      /\ handle = None /\ got = <<>> /\ bytes = [p \in Paths |-> None]
      /\ exit = None /\ seen = {} /\ reused = FALSE
  BY DEF Init
<1>2. Len(history) \in Nat \ {0} /\ 1 \in 1..Len(history) /\ 1 \in 1..1
  BY <1>1, HistoriesAssumption
<1>3. \A p \in Paths : history[1][p] \in PiecesOf(history, p) BY <1>2 DEF PiecesOf
<1>4. \A p \in Paths : Released(1, p) \in ContentsOf(history, p)
  BY <1>3 DEF Released, ContentsOf
<1>5. /\ \A p \in Paths : ContentsOf(history, p) \subseteq [Places -> Pieces]
      /\ Nothing \in [Places -> Pieces]
  <2>1. \A p \in Paths : PiecesOf(history, p) \subseteq Pieces BY DEF Pieces
  <2>2. \A p \in Paths : Torn \in PiecesOf(history, p) BY DEF PiecesOf
  <2>3. "manifest.json" \in Paths BY DEF Paths
  <2>4. Torn \in Pieces BY <2>1, <2>2, <2>3
  <2>5. Nothing \in [Places -> Pieces] BY <2>4 DEF Nothing
  <2>6. QED BY <2>1, <2>5 DEF ContentsOf
<1>6. \A p \in Paths : p \in Inodes BY NumbersAssumption DEF Inodes
<1>7. /\ dir = [p \in Paths |-> [kind |-> "file", inode |-> p]]
      /\ disk = [i \in Inodes |-> IF i \in Paths THEN Released(1, i) ELSE Nothing]
  BY DEF Init
<1>8. dir \in [Paths -> Entries \cup {None}] BY <1>6, <1>7 DEF Entries
<1>9. disk \in [Inodes -> [Places -> Pieces]]
  <2>1. \A i \in Inodes : (IF i \in Paths THEN Released(1, i) ELSE Nothing)
                            \in [Places -> Pieces]
    BY <1>4, <1>5
  <2>2. QED BY <1>7, <2>1
<1>10. TypeOK
  <2>1. got \in Seq(Pieces) /\ Len(got) <= Size
    BY <1>1, SizeAssumption
  <2>2. bytes \in [Paths -> [Places -> Pieces] \cup {None}] BY <1>1
  <2>3. release \in 1..Len(history) BY <1>1, <1>2
  <2>4. file \in Paths BY <1>1 DEF Paths
  <2>5. QED BY <1>1, <1>8, <1>9, <2>1, <2>2, <2>3, <2>4 DEF TypeOK
<1>11. EntryInv
  <2>1. \A p \in Paths : Holds(p, Released(1, p))
    BY <1>1, <1>2, <1>4 DEF Holds, IsManifest
  <2>2. \A p \in Paths : dir[p].inode = p /\ disk[p] = Released(1, p)
    BY <1>6, <1>7
  <2>3. QED BY <2>1, <2>2 DEF EntryInv
<1>12. SeenInv /\ HandleInv /\ ReadInv /\ StageInv /\ BytesInv
  BY <1>1 DEF SeenInv, HandleInv, ReadInv, StageInv, BytesInv
<1>13. Accepted => Checked BY <1>1 DEF Accepted
<1>14. QED BY <1>1, <1>10, <1>11, <1>12, <1>13 DEF GInv

LEMMA GInvKept == GInv /\ [Next]_vars => GInv'
<1>1. GInv /\ Validator => GInv'
  BY StartKeeps, InspectKeeps, OpenKeeps, ReadKeeps, DecodeKeeps, CheckKeeps,
     ReportKeeps
  DEF Validator
<1>2. GInv /\ UNCHANGED vars => GInv'
  <2> SUFFICES ASSUME GInv, UNCHANGED vars PROVE GInv' OBVIOUS
  <2>1. /\ UNCHANGED published
        /\ UNCHANGED <<at, file, handle, got, bytes, exit, seen, reused>>
    BY DEF vars, published
  <2>2. /\ UNCHANGED <<history, release, pending, dir, disk, patched, Pieces, Entries>>
        /\ PiecesOf(history, file)' = PiecesOf(history, file)
    BY <2>1, FilesStay DEF PiecesOf
  <2>3. TypeOK' BY <2>1, <2>2 DEF GInv, TypeOK
  <2>4. SeenInv' /\ HandleInv' /\ StageInv'
    BY <2>1, <2>2 DEF GInv, SeenInv, HandleInv, StageInv, Shown, Regular
  <2>5. ReadInv'
    <3>1. Holds(file, disk[handle]) <=> Holds(file, disk[handle])'
      BY <2>1, <2>2 DEF Holds, IsManifest, ContentsOf, PiecesOf, Released
    <3>2. QED BY <2>1, <2>2, <3>1 DEF GInv, ReadInv
  <2>6. BytesInv' BY <2>1, BytesKept
  <2>7. (Accepted => Checked)' BY <2>1 DEF GInv, Accepted, Checked
  <2>8. QED BY <2>1, <2>3, <2>4, <2>5, <2>6, <2>7, ValidatorFrame
<1>3. QED BY <1>1, <1>2, PublishKeeps DEF Next

(***************************************************************************)
(* GoldenInvariant: the strengthening holds whatever the publisher does    *)
(* between two system calls of the validator, the reads of one file among  *)
(* them.                                                                   *)
(***************************************************************************)
THEOREM GoldenInvariant == Spec => []GInv
BY GInvStarts, GInvKept, PTL DEF Spec

(***************************************************************************)
(* GoldenTypeCorrect: the state of ValidateDir and of the directory is     *)
(* well formed; in particular all three files have been read when they are *)
(* checked.                                                                *)
(***************************************************************************)
THEOREM GoldenTypeCorrect == Spec => []TypeOK
<1>1. GInv => TypeOK BY DEF GInv
<1>2. QED BY <1>1, GoldenInvariant, PTL

(***************************************************************************)
(* NothingElseRead: unless the number that was inspected is given to a new *)
(* file before the path is opened, Lstat, Open and SameFile together make  *)
(* sure that every piece decodeFile reads was in a regular file at the     *)
(* path since it was inspected, in files of any number of pieces.          *)
(***************************************************************************)
THEOREM NothingElseRead == Spec => []ReadWasThere
<1>1. GInv => ReadWasThere BY DEF GInv, ReadInv, ReadWasThere
<1>2. QED BY <1>1, GoldenInvariant, PTL

(***************************************************************************)
(* NoMixtureAccepted: an accepted manifest nobody wrote to in place is     *)
(* that of a release, and one that pins its own companions is accepted     *)
(* with these only, however many releases there are and in how many pieces *)
(* the files are read.                                                     *)
(***************************************************************************)
THEOREM NoMixtureAccepted == Spec => []AcceptedIsOneRelease
<1>1. ASSUME GInv, Accepted PROVE patched \/ \E k \in 1..release : IsManifestOf(k)
  <2>1. bytes["manifest.json"] # None BY <1>1, AcceptedDocuments DEF Paths
  <2>2. patched \/ IsManifest(bytes["manifest.json"])
    BY <1>1, <2>1 DEF GInv, BytesInv, Holds, Paths
  <2>3. QED BY <2>2 DEF IsManifest, IsManifestOf
<1>2. ASSUME GInv, Accepted, NEW k \in 1..release, IsManifestOf(k), PinsItsOwn(k)
      PROVE  \A p \in Paths : bytes[p] = Released(k, p)
  <2>1. pins(Decoded(bytes["manifest.json"]), bytes["quality-gates.json"],
             bytes["cases.json"])
    BY <1>2 DEF GInv, Checked, validateManifest
  <2>2. bytes["manifest.json"] = Released(k, "manifest.json")
    BY <1>2 DEF IsManifestOf
  <2>3. /\ sha256Hex(bytes["quality-gates.json"]) =
             sha256Hex(Released(k, "quality-gates.json"))
        /\ sha256Hex(bytes["cases.json"]) = sha256Hex(Released(k, "cases.json"))
    BY <1>2, <2>1, <2>2 DEF pins, PinsItsOwn
  <2>4. \A s, t : sha256Hex(s) = sha256Hex(t) => s = t
    <3>1. \A s : sha256Hex(s).of = s BY DEF sha256Hex
    <3>2. QED BY <3>1
  <2>5. QED BY <2>2, <2>3, <2>4 DEF Paths
<1>3. GInv => AcceptedIsOneRelease BY <1>1, <1>2 DEF AcceptedIsOneRelease
<1>4. QED BY <1>3, GoldenInvariant, PTL

(***************************************************************************)
(* OnlySoundAccepted: exit code 0 means that ids partition the cases of    *)
(* the source, that the gate can be met, that no two cases ask the same,   *)
(* that every metric is gated once, that no case rests on blocked evidence *)
(* and that nothing is authorised, for suites of every size.               *)
(***************************************************************************)
THEOREM OnlySoundAccepted == Spec => []AcceptedIsSound
BY CheckedSound, GoldenInvariant, PTL
=============================================================================
