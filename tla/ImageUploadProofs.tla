------------------------- MODULE ImageUploadProofs -------------------------
(***************************************************************************)
(* Theorems about ImageUpload, for any limit, any set of sizes and any     *)
(* number of picks, runs and image ids.                                    *)
(***************************************************************************)
EXTENDS ImageUpload, SequenceTheorems, TLAPS

USE DEF form, picker, upload

-----------------------------------------------------------------------------
(***************************************************************************)
(* Lists                                                                   *)
(***************************************************************************)
Entry == -MaxPicks .. MaxIds

\* No entry appears twice.
Distinct(list) == \A i, j \in 1 .. Len(list) : list[i] = list[j] => i = j

Clean(list) == \A i \in 1 .. Len(list) : list[i] # undefined

\* The entries of new are entries of list, in any order, or undefined.
Drawn(new, list) ==
  \A j \in 1 .. Len(new) :
    new[j] = undefined \/ \E k \in 1 .. Len(list) : new[j] = list[k]

LEMMA EntryDef ==
  /\ 0 \in Entry /\ Id \subseteq Entry /\ File \subseteq Entry /\ Lists = Seq(Entry)
  /\ \A x \in Entry : x \in Int /\ (x < 0 => x \in File) /\ (x > 0 => x \in Id)
  /\ 0 \notin File /\ 0 \notin Id
  BY ConfigAssumption DEF ConfigAssumption, Entry, Id, File, Lists

\* splice(i, 1) closes the gap.
LEMMA WithoutList ==
  ASSUME NEW S, NEW list \in Seq(S), NEW i \in 1 .. Len(list)
  PROVE  /\ Without(list, i) \in Seq(S)
         /\ Len(Without(list, i)) = Len(list) - 1
         /\ \A j \in 1 .. Len(list) - 1 :
              Without(list, i)[j] = IF j < i THEN list[j] ELSE list[j + 1]
<1> DEFINE a == SubSeq(list, 1, i - 1)
           b == SubSeq(list, i + 1, Len(list))
<1>0. Len(list) \in Nat
  BY LenProperties
<1>1. /\ a \in Seq(S) /\ Len(a) = i - 1
      /\ \A j \in 1 .. i - 1 : a[j] = list[j]
  BY <1>0, ElementOfSeq, SubSeqProperties
<1>2. /\ b \in Seq(S) /\ Len(b) = Len(list) - i
      /\ \A j \in 1 .. Len(list) - i : b[j] = list[i + j]
  BY <1>0, ElementOfSeq, SubSeqProperties
<1>3. Without(list, i) = a \o b
  BY DEF Without
<1> HIDE DEF a, b
<1>4. /\ a \o b \in Seq(S) /\ Len(a \o b) = Len(list) - 1
      /\ \A j \in 1 .. Len(list) - 1 :
           (a \o b)[j] = IF j <= i - 1 THEN a[j] ELSE b[j - (i - 1)]
  <2>1. /\ a \o b \in Seq(S) /\ Len(a \o b) = Len(a) + Len(b)
        /\ \A j \in 1 .. Len(a) + Len(b) :
             (a \o b)[j] = IF j <= Len(a) THEN a[j] ELSE b[j - Len(a)]
    BY <1>1, <1>2, ConcatProperties
  <2>2. Len(a) + Len(b) = Len(list) - 1
    BY <1>0, <1>1, <1>2
  <2> QED BY <1>1, <2>1, <2>2
<1>5. ASSUME NEW j \in 1 .. Len(list) - 1
      PROVE  (a \o b)[j] = IF j < i THEN list[j] ELSE list[j + 1]
  <2>1. CASE j < i
    BY <1>0, <1>1, <1>4, <2>1
  <2>2. CASE ~ j < i
    <3>1. j - (i - 1) \in 1 .. Len(list) - i /\ i + (j - (i - 1)) = j + 1
      BY <1>0, <2>2
    <3> QED BY <1>0, <1>2, <1>4, <2>2, <3>1
  <2> QED BY <2>1, <2>2
<1> QED BY <1>3, <1>4, <1>5

Inserted(rest, item, to) ==
  SubSeq(rest, 1, to - 1) \o <<item>> \o SubSeq(rest, to, Len(rest))

\* splice(to, 0, item) makes room for the item.
LEMMA InsertedList ==
  ASSUME NEW S, NEW rest \in Seq(S), NEW item \in S, NEW to \in 1 .. Len(rest) + 1
  PROVE  /\ Inserted(rest, item, to) \in Seq(S)
         /\ Len(Inserted(rest, item, to)) = Len(rest) + 1
         /\ \A j \in 1 .. Len(rest) + 1 :
              Inserted(rest, item, to)[j] =
                IF j < to THEN rest[j] ELSE IF j = to THEN item ELSE rest[j - 1]
<1> DEFINE a == SubSeq(rest, 1, to - 1)
           b == SubSeq(rest, to, Len(rest))
           c == a \o <<item>>
<1>0. Len(rest) \in Nat
  BY LenProperties
<1>1. /\ a \in Seq(S) /\ Len(a) = to - 1
      /\ \A j \in 1 .. to - 1 : a[j] = rest[j]
  BY <1>0, ElementOfSeq, SubSeqProperties
<1>2. /\ b \in Seq(S) /\ Len(b) = Len(rest) + 1 - to
      /\ \A j \in 1 .. Len(rest) + 1 - to : b[j] = rest[to + j - 1]
  BY <1>0, ElementOfSeq, SubSeqProperties
<1> HIDE DEF a, b
<1>3. <<item>> \in Seq(S) /\ Len(<<item>>) = 1 /\ <<item>>[1] = item
  OBVIOUS
<1>4. /\ c \in Seq(S) /\ Len(c) = to
      /\ \A j \in 1 .. to : c[j] = IF j < to THEN rest[j] ELSE item
  <2>1. /\ c \in Seq(S) /\ Len(c) = to - 1 + 1
        /\ \A j \in 1 .. to - 1 + 1 :
             c[j] = IF j <= to - 1 THEN a[j] ELSE <<item>>[j - (to - 1)]
    BY <1>1, <1>3, ConcatProperties
  <2> HIDE DEF c
  <2>2. to \in Nat /\ to - 1 + 1 = to
    BY <1>0
  <2>3. ASSUME NEW j \in 1 .. to
        PROVE  c[j] = IF j < to THEN rest[j] ELSE item
    <3>1. c[j] = IF j <= to - 1 THEN a[j] ELSE <<item>>[j - (to - 1)]
      BY <2>1, <2>2
    <3>2. CASE j < to
      <4>1. j \in 1 .. to - 1 /\ j <= to - 1
        BY <2>2, <3>2
      <4> QED BY <1>1, <3>1, <3>2, <4>1
    <3>3. CASE ~ j < to
      <4>1. j - (to - 1) = 1 /\ ~ j <= to - 1
        BY <2>2, <3>3
      <4> QED BY <1>3, <3>1, <3>3, <4>1
    <3> QED BY <3>2, <3>3
  <2> QED BY <2>1, <2>2, <2>3
<1> HIDE DEF c
<1>5. /\ c \o b \in Seq(S) /\ Len(c \o b) = Len(rest) + 1
      /\ \A j \in 1 .. Len(rest) + 1 :
           (c \o b)[j] = IF j <= to THEN c[j] ELSE b[j - to]
  <2>1. /\ c \o b \in Seq(S) /\ Len(c \o b) = Len(c) + Len(b)
        /\ \A j \in 1 .. Len(c) + Len(b) :
             (c \o b)[j] = IF j <= Len(c) THEN c[j] ELSE b[j - Len(c)]
    BY <1>2, <1>4, ConcatProperties
  <2>2. Len(c) + Len(b) = Len(rest) + 1
    BY <1>0, <1>2, <1>4
  <2> QED BY <1>4, <2>1, <2>2
<1>6. ASSUME NEW j \in 1 .. Len(rest) + 1
      PROVE  (c \o b)[j] = IF j < to THEN rest[j] ELSE IF j = to THEN item ELSE rest[j - 1]
  <2>1. CASE j <= to
    BY <1>0, <1>4, <1>5, <2>1
  <2>2. CASE ~ j <= to
    <3>1. j - to \in 1 .. Len(rest) + 1 - to /\ to + (j - to) - 1 = j - 1
      BY <1>0, <2>2
    <3> QED BY <1>0, <1>2, <1>5, <2>2, <3>1
  <2> QED BY <2>1, <2>2
<1> QED BY <1>5, <1>6 DEF a, b, c, Inserted

\* A list without one of its entries has no other, and none twice.
LEMMA RemovedList ==
  ASSUME NEW S, NEW list \in Seq(S), NEW i \in 1 .. Len(list), Distinct(list)
  PROVE  LET new == Without(list, i)
         IN  /\ new \in Seq(S) /\ Distinct(new) /\ Drawn(new, list)
             /\ Len(new) = Len(list) - 1
             /\ \A j \in 1 .. Len(new) : new[j] # list[i]
<1> DEFINE new == Without(list, i)
<1>0. Len(list) \in Nat
  BY LenProperties
<1>1. /\ new \in Seq(S) /\ Len(new) = Len(list) - 1
      /\ \A j \in 1 .. Len(list) - 1 : new[j] = IF j < i THEN list[j] ELSE list[j + 1]
  BY WithoutList
<1> HIDE DEF new
<1>2. Distinct(new)
  BY <1>0, <1>1 DEF Distinct
<1>3. Drawn(new, list)
  BY <1>0, <1>1 DEF Drawn
<1>4. \A j \in 1 .. Len(new) : new[j] # list[i]
  BY <1>0, <1>1 DEF Distinct
<1> QED BY <1>1, <1>2, <1>3, <1>4 DEF new

\* A move keeps the entries apart; one from beyond the end of the list adds an
\* undefined entry to it.
LEMMA MovedList ==
  ASSUME NEW S, 0 \in S, NEW list \in Seq(S), Distinct(list), Clean(list),
         NEW from \in Nat, NEW to \in 1 .. Len(list)
  PROVE  LET new == Moved(list, from, to)
         IN  /\ new \in Seq(S) /\ Distinct(new) /\ Drawn(new, list)
             /\ Len(new) = IF from \in 1 .. Len(list) THEN Len(list) ELSE Len(list) + 1
<1> DEFINE item == IF from \in 1 .. Len(list) THEN list[from] ELSE undefined
           rest == Without(list, from)
           new == Inserted(rest, item, to)
<1>0. Len(list) \in Nat
  BY LenProperties
<1>1. item \in S /\ (item = undefined \/ \E k \in 1 .. Len(list) : item = list[k])
  BY ElementOfSeq DEF undefined
<1>2. /\ rest \in Seq(S) /\ Distinct(rest) /\ Drawn(rest, list)
      /\ Len(rest) = IF from \in 1 .. Len(list) THEN Len(list) - 1 ELSE Len(list)
      /\ \A j \in 1 .. Len(rest) : rest[j] # item
  <2>1. CASE from \in 1 .. Len(list)
    BY <2>1, RemovedList
  <2>2. CASE from \notin 1 .. Len(list)
    <3>1. rest = list
      BY <2>2 DEF Without
    <3> QED BY <2>2, <3>1 DEF Drawn, Clean
  <2> QED BY <2>1, <2>2
<1>3. Moved(list, from, to) = new
  BY DEF Moved, Inserted
<1> HIDE DEF item, rest
<1>t. to \in 1 .. Len(rest) + 1
  BY <1>0, <1>2
<1>4. /\ new \in Seq(S) /\ Len(new) = Len(rest) + 1
      /\ \A j \in 1 .. Len(rest) + 1 :
           new[j] = IF j < to THEN rest[j] ELSE IF j = to THEN item ELSE rest[j - 1]
  <2>1. rest \in Seq(S) /\ item \in S
    BY <1>1, <1>2
  <2> QED BY ONLY <1>t, <2>1, InsertedList
<1> HIDE DEF new
<1>5. Len(rest) \in Nat
  BY <1>2, LenProperties
<1>m. \A j \in 1 .. Len(new) :
        \/ j = to /\ new[j] = item
        \/ \E m \in 1 .. Len(rest) : new[j] = rest[m] /\ j = IF m < to THEN m ELSE m + 1
  <2> SUFFICES ASSUME NEW j \in 1 .. Len(new), j # to
               PROVE  \E m \in 1 .. Len(rest) :
                        new[j] = rest[m] /\ j = IF m < to THEN m ELSE m + 1
    BY <1>4
  <2>1. CASE j < to
    BY <1>4, <1>5, <1>t, <2>1
  <2>2. CASE ~ j < to
    <3>1. j - 1 \in 1 .. Len(rest) /\ ~ j - 1 < to /\ j = (j - 1) + 1
      BY <1>4, <1>5, <1>t, <2>2
    <3> QED BY <1>4, <1>5, <1>t, <2>2, <3>1
  <2> QED BY <2>1, <2>2
<1>6. Distinct(new)
  <2> SUFFICES ASSUME NEW i \in 1 .. Len(new), NEW j \in 1 .. Len(new), new[i] = new[j]
               PROVE  i = j
    BY DEF Distinct
  <2>1. CASE new[i] = item
    <3>1. \A m \in 1 .. Len(rest) : rest[m] # new[i] /\ rest[m] # new[j]
      BY <1>2, <2>1
    <3> QED BY <1>m, <3>1
  <2>2. CASE new[i] # item
    <3>1. PICK m \in 1 .. Len(rest) : new[i] = rest[m] /\ i = IF m < to THEN m ELSE m + 1
      BY <1>m, <2>2
    <3>2. PICK k \in 1 .. Len(rest) : new[j] = rest[k] /\ j = IF k < to THEN k ELSE k + 1
      BY <1>m, <2>2
    <3>3. m = k
      BY <1>2, <3>1, <3>2 DEF Distinct
    <3> QED BY <3>1, <3>2, <3>3
  <2> QED BY <2>1, <2>2
<1>7. Drawn(new, list)
  <2> SUFFICES ASSUME NEW j \in 1 .. Len(new)
               PROVE  new[j] = undefined \/ \E k \in 1 .. Len(list) : new[j] = list[k]
    BY DEF Drawn
  <2>1. new[j] = item \/ \E m \in 1 .. Len(rest) : new[j] = rest[m]
    BY <1>m
  <2> QED BY <1>1, <1>2, <2>1 DEF Drawn
<1>8. Len(new) = IF from \in 1 .. Len(list) THEN Len(list) ELSE Len(list) + 1
  BY <1>0, <1>2, <1>4
<1> QED BY <1>3, <1>4, <1>6, <1>7, <1>8

-----------------------------------------------------------------------------
(***************************************************************************)
(* The inductive invariant                                                 *)
(***************************************************************************)
\* The ids of the images that are stored in every size.
Complete(objs) == {id \in Id : Objects(id, Sizes) \subseteq objs}

\* What a list holds has been picked, or given an id and stored in every size.
\* (p files were picked, n ids given, objs stored.)
Known(list, p, n, objs) ==
  \A i \in 1 .. Len(list) :
    /\ -p <= list[i] /\ list[i] <= n
    /\ list[i] > 0 => Objects(list[i], Sizes) \subseteq objs

\* The ids that a run gave to the files of its list so far are of its own, and
\* complete.
Assigned(list, ids, n, objs) ==
  /\ DOMAIN ids \subseteq File /\ ids \in [DOMAIN ids -> Id]
  /\ \A f \in DOMAIN ids : ids[f] <= n /\ Objects(ids[f], Sizes) \subseteq objs
  /\ \A f, g \in DOMAIN ids : ids[f] = ids[g] => f = g
  /\ \A f \in DOMAIN ids, i \in 1 .. Len(list) : list[i] # ids[f]

\* A list that a closure captured from a screen that was shown.
Captured(list, p, n, objs) ==
  /\ list \in Lists /\ Known(list, p, n, objs) /\ Distinct(list) /\ Clean(list)
  /\ Len(list) <= maxImages

\* A run with an upload under way: all but the sizes left of it are stored.
Busy(r, n, objs) ==
  /\ r.file \in File \ DOMAIN r.ids
  /\ r.id \in Id /\ r.id <= n
  /\ Assigned(r.list, r.ids, n, objs)
  /\ \A f \in DOMAIN r.ids : r.ids[f] # r.id
  /\ \A i \in 1 .. Len(r.list) : r.list[i] # r.id
  /\ r.st = "storing" => Objects(r.id, Sizes \ r.left) \subseteq objs

RunOK(r, p, n, objs) ==
  /\ r \in Run
  /\ r = Idle \/ (r.st # "idle" /\ Captured(r.list, p, n, objs) /\ Busy(r, n, objs))

Counts ==
  /\ lastPick \in 0 .. MaxPicks /\ lastId \in 0 .. MaxIds
  /\ selectedIndex \in 0 .. maxImages
  /\ stored \subseteq Id \X Sizes

Switches == isPicking \in BOOLEAN /\ isUploading \in BOOLEAN

ShownOK ==
  /\ images \in Lists /\ Known(images, lastPick, lastId, stored)
  /\ Distinct(images) /\ Len(images) <= maxImages

PickOK ==
  /\ Captured(pickFrom, lastPick, lastId, stored)
  /\ isPicking => Len(pickFrom) < maxImages

RunsOK ==
  /\ runs \in [Uploads -> Run]
  /\ \A u \in Uploads : RunOK(runs[u], lastPick, lastId, stored)

ReturnedOK == returned \subseteq Complete(stored)

SpinnersOK ==
  /\ uploadingImages \subseteq File /\ uploadedImages \subseteq File
  /\ SpinnerStops

Remembered ==
  /\ initialImages \in Lists /\ opened \in Lists
  /\ opened # <<>> => initialImages = opened

ImageInv ==
  /\ Counts /\ Switches /\ ShownOK /\ PickOK /\ RunsOK /\ ReturnedOK /\ SpinnersOK
  /\ Remembered

-----------------------------------------------------------------------------
(***************************************************************************)
(* Lemmas about lists and runs                                             *)
(***************************************************************************)
\* What was picked, given and stored stays so.
LEMMA KnownGrows ==
  ASSUME NEW list \in Lists, NEW p \in Int, NEW n \in Int, NEW objs,
         NEW q \in Int, NEW m \in Int, NEW objs2,
         p <= q, n <= m, objs \subseteq objs2, Known(list, p, n, objs)
  PROVE  Known(list, q, m, objs2)
<1>1. \A i \in 1 .. Len(list) : list[i] \in Int
  BY ElementOfSeq, EntryDef
<1> QED BY <1>1 DEF Known

LEMMA RunGrows ==
  ASSUME NEW r, NEW p \in Int, NEW n \in Int, NEW objs,
         NEW q \in Int, NEW m \in Int, NEW objs2,
         p <= q, n <= m, objs \subseteq objs2, RunOK(r, p, n, objs)
  PROVE  RunOK(r, q, m, objs2)
<1> SUFFICES ASSUME r # Idle PROVE RunOK(r, q, m, objs2)
  BY DEF RunOK
<1>1. Captured(r.list, q, m, objs2)
  BY KnownGrows DEF RunOK, Captured
<1>i. \A x \in Id : x \in Int
  BY DEF Id
<1>2. Assigned(r.list, r.ids, m, objs2)
  <2>1. Assigned(r.list, r.ids, n, objs)
    BY DEF RunOK, Busy
  <2>2. \A f \in DOMAIN r.ids : r.ids[f] <= m
    BY <1>i, <2>1 DEF Assigned
  <2> QED BY <2>1, <2>2 DEF Assigned
<1>3. Busy(r, m, objs2)
  <2>1. Busy(r, n, objs)
    BY DEF RunOK
  <2>2. r.id <= m
    BY <1>i, <2>1 DEF Busy
  <2> QED BY <1>2, <2>1, <2>2 DEF Busy
<1> QED BY <1>1, <1>3 DEF RunOK

\* A file that is new to the list is added at its end.
LEMMA AppendedList ==
  ASSUME NEW list, NEW p \in Nat, NEW n \in Nat, NEW objs, p + 1 <= MaxPicks,
         Captured(list, p, n, objs)
  PROVE  LET new == Append(list, -(p + 1))
         IN  /\ new \in Lists /\ Known(new, p + 1, n, objs) /\ Distinct(new)
             /\ Len(new) = Len(list) + 1
<1> DEFINE new == Append(list, -(p + 1))
<1>0. Len(list) \in Nat /\ list \in Seq(Entry) /\ -(p + 1) \in Entry
  BY LenProperties, EntryDef, ConfigAssumption DEF Captured, Entry, ConfigAssumption
<1>1. /\ new \in Seq(Entry) /\ Len(new) = Len(list) + 1
      /\ \A i \in 1 .. Len(list) : new[i] = list[i]
      /\ new[Len(list) + 1] = -(p + 1)
  BY <1>0, AppendProperties
<1>2. \A i \in 1 .. Len(list) : list[i] \in Int /\ -p <= list[i]
  BY <1>0, ElementOfSeq, EntryDef DEF Captured, Known
<1> HIDE DEF new
<1>3. \A i \in 1 .. Len(new) : i \in 1 .. Len(list) \/ i = Len(list) + 1
  BY <1>0, <1>1
<1>4. Known(new, p + 1, n, objs)
  <2>1. Known(list, p + 1, n, objs)
    BY KnownGrows DEF Captured
  <2> QED BY <1>0, <1>1, <1>3, <2>1 DEF Known
<1>5. Distinct(new)
  BY <1>0, <1>1, <1>2, <1>3 DEF Distinct, Captured
<1> QED BY <1>1, <1>4, <1>5, EntryDef DEF new

\* What is drawn from a list is as well known.
LEMMA DrawnKnown ==
  ASSUME NEW list, NEW new, NEW p \in Nat, NEW n \in Nat, NEW objs,
         Known(list, p, n, objs), Drawn(new, list)
  PROVE  Known(new, p, n, objs)
  BY DEF Known, Drawn, undefined

\* The ids of a run, once the upload under way is done.
IdsOf(r) == [f \in DOMAIN r.ids \union {r.file} |->
               IF f = r.file THEN r.id ELSE r.ids[f]]

LEMMA IdsExtended ==
  ASSUME NEW r, NEW n, NEW objs, NEW objs2, Busy(r, n, objs),
         objs \subseteq objs2, Objects(r.id, Sizes) \subseteq objs2
  PROVE  Assigned(r.list, IdsOf(r), n, objs2)
<1> DEFINE ids == IdsOf(r)
<1>1. /\ DOMAIN ids = DOMAIN r.ids \union {r.file} /\ ids[r.file] = r.id
      /\ \A f \in DOMAIN r.ids : f # r.file /\ ids[f] = r.ids[f]
      /\ ids = [f \in DOMAIN ids |-> ids[f]]
  BY DEF IdsOf, Busy
<1> HIDE DEF ids
<1>2. \A f \in DOMAIN ids : ids[f] \in Id
  BY <1>1 DEF Busy, Assigned
<1>3. ids \in [DOMAIN ids -> Id]
  BY <1>1, <1>2
<1>4. \A f \in DOMAIN ids : ids[f] <= n /\ Objects(ids[f], Sizes) \subseteq objs2
  BY <1>1 DEF Busy, Assigned
<1>5. \A f, g \in DOMAIN ids : ids[f] = ids[g] => f = g
  BY <1>1 DEF Busy, Assigned
<1>6. \A f \in DOMAIN ids, i \in 1 .. Len(r.list) : r.list[i] # ids[f]
  BY <1>1 DEF Busy, Assigned
<1>7. DOMAIN ids \subseteq File
  BY <1>1 DEF Busy, Assigned
<1> QED BY <1>3, <1>4, <1>5, <1>6, <1>7 DEF Assigned, ids

\* A run that begins with a file gives it the next id.
LEMMA RunBegins ==
  ASSUME NEW list, NEW ids, NEW p \in Nat, NEW n \in Nat, NEW objs, n + 1 <= MaxIds,
         Captured(list, p, n, objs), Assigned(list, ids, n, objs),
         NEW i \in 1 .. Len(list), isPreviewImage(list[i]), list[i] \notin DOMAIN ids
  PROVE  /\ list[i] \in File
         /\ RunOK([st |-> "processing", list |-> list, ids |-> ids, file |-> list[i],
                   id |-> n + 1, left |-> {}], p, n + 1, objs)
<1> DEFINE r == [st |-> "processing", list |-> list, ids |-> ids, file |-> list[i],
                 id |-> n + 1, left |-> {}]
<1>1. list[i] \in File
  BY EntryDef, ElementOfSeq DEF Captured, isPreviewImage
<1>2. n + 1 \in Id /\ \A x \in Id : x \in Int
  BY ConfigAssumption DEF ConfigAssumption, Id
<1>3. r \in Run
  <2>1. ids \in UNION {[fs -> Id] : fs \in SUBSET File}
    BY DEF Assigned
  <2> HIDE DEF Run
  <2>2. \A s \in {"idle", "processing", "storing"}, k \in Lists,
          d \in UNION {[fs -> Id] : fs \in SUBSET File}, f \in File \union {0},
          x \in Id \union {0}, left \in SUBSET Sizes :
          [st |-> s, list |-> k, ids |-> d, file |-> f, id |-> x, left |-> left] \in Run
    BY DEF Run
  <2> QED BY <1>1, <1>2, <2>1, <2>2 DEF Captured
<1>4. /\ r.st = "processing" /\ r.list = list /\ r.ids = ids /\ r.file = list[i]
      /\ r.id = n + 1
  OBVIOUS
<1>5. Captured(list, p, n + 1, objs)
  <2>1. list \in Lists /\ Known(list, p, n, objs)
    BY DEF Captured
  <2>2. p <= p /\ n <= n + 1 /\ p \in Int /\ n \in Int /\ n + 1 \in Int
    OBVIOUS
  <2>3. Known(list, p, n + 1, objs)
    BY <2>1, <2>2, KnownGrows
  <2> QED BY <2>3 DEF Captured
<1>6. Assigned(list, ids, n + 1, objs) /\ \A f \in DOMAIN ids : ids[f] # n + 1
  <2>1. \A f \in DOMAIN ids : ids[f] \in Int /\ ids[f] <= n
    BY <1>2 DEF Assigned
  <2>2. \A f \in DOMAIN ids : ids[f] <= n + 1 /\ ids[f] # n + 1
    BY <2>1
  <2> QED BY <2>2 DEF Assigned
<1>7. \A k \in 1 .. Len(list) : list[k] # n + 1
  <2>1. \A k \in 1 .. Len(list) : list[k] \in Int /\ list[k] <= n
    BY EntryDef, ElementOfSeq DEF Captured, Known
  <2> QED BY <2>1
<1> HIDE DEF r
<1>8. Busy(r, n + 1, objs)
  BY <1>1, <1>2, <1>4, <1>6, <1>7 DEF Busy
<1> QED BY <1>1, <1>3, <1>4, <1>5, <1>8 DEF RunOK, r

\* The list of a run with ids in the place of files.
Updated(list, ids) ==
  [i \in 1 .. Len(list) |-> IF list[i] \in DOMAIN ids THEN ids[list[i]] ELSE list[i]]

LEMMA ListUpdated ==
  ASSUME NEW list, NEW ids, NEW p \in Nat, NEW n \in Nat, NEW objs,
         Captured(list, p, n, objs), Assigned(list, ids, n, objs),
         Previews(list) \subseteq DOMAIN ids
  PROVE  /\ Updated(list, ids) \in Lists /\ Known(Updated(list, ids), p, n, objs)
         /\ Distinct(Updated(list, ids)) /\ Len(Updated(list, ids)) = Len(list)
         /\ Entries(Updated(list, ids)) \subseteq Complete(objs)
<1> DEFINE new == [i \in 1 .. Len(list) |->
                     IF list[i] \in DOMAIN ids THEN ids[list[i]] ELSE list[i]]
<1>0. Len(list) \in Nat /\ \A x \in Id : x \in Int /\ x > 0
  BY LenProperties DEF Captured, Lists, Id
<1>1. ASSUME NEW i \in 1 .. Len(list)
      PROVE  new[i] \in Id /\ new[i] <= n /\ Objects(new[i], Sizes) \subseteq objs
  <2>1. CASE list[i] \in DOMAIN ids
    BY <2>1 DEF Assigned
  <2>2. CASE list[i] \notin DOMAIN ids
    <3>1. ~ isPreviewImage(list[i])
      BY <2>2 DEF Previews, Entries
    <3>2. list[i] \in Entry /\ list[i] # 0
      BY EntryDef, ElementOfSeq DEF Captured, Clean, undefined
    <3>3. list[i] > 0 /\ list[i] \in Id
      BY <3>1, <3>2, EntryDef DEF isPreviewImage
    <3> QED BY <2>2, <3>3 DEF Captured, Known
  <2> QED BY <2>1, <2>2
<1>2. new \in Seq(Entry) /\ Len(new) = Len(list)
  <2>1. new \in [1 .. Len(list) -> Entry]
    BY <1>1, EntryDef
  <2> QED BY <1>0, <2>1
<1>3. Distinct(new)
  <2> SUFFICES ASSUME NEW i \in 1 .. Len(list), NEW j \in 1 .. Len(list), new[i] = new[j]
               PROVE  i = j
    BY <1>2 DEF Distinct
  <2>1. list[i] = list[j]
    BY DEF Assigned
  <2> QED BY <2>1 DEF Captured, Distinct
<1> HIDE DEF new
<1>4. Known(new, p, n, objs)
  <2>1. \A i \in 1 .. Len(list) : new[i] > 0 /\ -p <= new[i]
    BY <1>0, <1>1
  <2> QED BY <1>1, <1>2, <2>1 DEF Known
<1>5. Entries(new) \subseteq Complete(objs)
  BY <1>1, <1>2 DEF Entries, Complete
<1> QED BY <1>2, <1>3, <1>4, <1>5, EntryDef DEF new, Updated

-----------------------------------------------------------------------------
(***************************************************************************)
(* Steps                                                                   *)
(***************************************************************************)
\* Nothing that was picked, given or stored is taken back.
Grows == lastPick <= lastPick' /\ lastId <= lastId' /\ stored \subseteq stored'

LEMMA Kept ==
  ASSUME Counts, Counts', Grows
  PROVE  /\ \A list \in Lists : Known(list, lastPick, lastId, stored) =>
                                  Known(list, lastPick', lastId', stored')
         /\ \A list : Captured(list, lastPick, lastId, stored) =>
                        Captured(list, lastPick', lastId', stored')
         /\ \A r : RunOK(r, lastPick, lastId, stored) =>
                     RunOK(r, lastPick', lastId', stored')
<1>1. lastPick \in Int /\ lastId \in Int /\ lastPick' \in Int /\ lastId' \in Int
  BY DEF Counts
<1>2. \A list \in Lists : Known(list, lastPick, lastId, stored) =>
                            Known(list, lastPick', lastId', stored')
  BY <1>1, KnownGrows DEF Grows
<1>3. \A r : RunOK(r, lastPick, lastId, stored) => RunOK(r, lastPick', lastId', stored')
  BY <1>1, RunGrows DEF Grows
<1> QED BY <1>2, <1>3 DEF Captured

\* A run goes on to a file: it alone is changed.
LEMMA UploadRuns ==
  ASSUME Counts, RunsOK, NEW u \in Uploads, NEW list, NEW ids, NEW uploading,
         UploadImage(u, list, ids, uploading), UNCHANGED lastPick, stored \subseteq stored',
         Captured(list, lastPick, lastId, stored'), Assigned(list, ids, lastId, stored')
  PROVE  /\ RunsOK'
         /\ lastId' \in 0 .. MaxIds /\ lastId <= lastId'
         /\ runs'[u] # Idle /\ runs'[u].file \in File
         /\ uploadingImages' = uploading \union {runs'[u].file}
         /\ \A v \in Uploads \ {u} : runs'[v] = runs[v]
<1>1. PICK i \in 1 .. Len(list) :
        /\ isPreviewImage(list[i]) /\ list[i] \notin DOMAIN ids
        /\ lastId < MaxIds
        /\ lastId' = lastId + 1
        /\ uploadingImages' = uploading \union {list[i]}
        /\ runs' = [runs EXCEPT ![u] =
                      [st |-> "processing", list |-> list, ids |-> ids,
                       file |-> list[i], id |-> lastId + 1, left |-> {}]]
  BY DEF UploadImage
<1> DEFINE r == [st |-> "processing", list |-> list, ids |-> ids, file |-> list[i],
                 id |-> lastId + 1, left |-> {}]
<1>2. lastPick \in Nat /\ lastId \in Nat /\ lastId + 1 <= MaxIds /\ MaxIds \in Nat
  BY <1>1, ConfigAssumption DEF Counts, ConfigAssumption
<1>3. list[i] \in File /\ RunOK(r, lastPick, lastId + 1, stored')
  BY <1>1, <1>2, RunBegins
<1>4. r.st = "processing" /\ r.file = list[i]
  OBVIOUS
<1> HIDE DEF r
<1>5. r \in Run /\ r # Idle
  BY <1>3, <1>4 DEF RunOK, Idle
<1>6. runs' = [runs EXCEPT ![u] = r]
  BY <1>1 DEF r
<1>7. \A v \in Uploads : runs'[v] = IF v = u THEN r ELSE runs[v]
  BY <1>6 DEF RunsOK
<1>8. lastId' = lastId + 1 /\ lastPick' = lastPick /\ lastId <= lastId + 1
      /\ lastId' \in 0 .. MaxIds
  BY <1>1, <1>2
<1>9. \A v \in Uploads : RunOK(runs[v], lastPick, lastId + 1, stored')
  <2>1. /\ lastPick \in Int /\ lastId \in Int /\ lastId + 1 \in Int
        /\ lastPick <= lastPick /\ lastId <= lastId + 1
    BY <1>2
  <2> QED BY <2>1, RunGrows DEF RunsOK
<1>10. RunsOK'
  <2>1. runs' \in [Uploads -> Run]
    BY <1>5, <1>6 DEF RunsOK
  <2>2. \A v \in Uploads : RunOK(runs'[v], lastPick', lastId', stored')
    BY <1>3, <1>7, <1>8, <1>9
  <2> QED BY <2>1, <2>2 DEF RunsOK
<1> QED BY <1>1, <1>3, <1>4, <1>5, <1>7, <1>8, <1>10

\* The last size of a file is stored: its id joins the ones that the run has given.
LEMMA DoneIds ==
  ASSUME Counts, RunsOK, NEW u \in Uploads, NEW s,
         runs[u].st = "storing", runs[u].left = {s},
         stored' = stored \union Objects(runs[u].id, {s})
  PROVE  /\ Captured(runs[u].list, lastPick, lastId, stored')
         /\ Assigned(runs[u].list, IdsOf(runs[u]), lastId, stored')
         /\ runs[u].file \in File
<1>1. /\ Captured(runs[u].list, lastPick, lastId, stored)
      /\ Busy(runs[u], lastId, stored)
  BY DEF RunsOK, RunOK, Idle
<1>2. Objects(runs[u].id, Sizes) \subseteq stored'
  BY <1>1 DEF Busy, Objects
<1>3. Assigned(runs[u].list, IdsOf(runs[u]), lastId, stored')
  BY <1>1, <1>2, IdsExtended
<1>4. lastPick \in Int /\ lastId \in Int /\ lastPick <= lastPick /\ lastId <= lastId
  BY DEF Counts
<1>5. Known(runs[u].list, lastPick, lastId, stored')
  BY <1>1, <1>4, KnownGrows DEF Captured
<1> QED BY <1>1, <1>3, <1>5 DEF Captured, Busy

\* A list on the screen is what a closure captures of it.
LEMMA Capture ==
  ASSUME ShownOK, ~Crashed
  PROVE  Captured(images, lastPick, lastId, stored)
  BY DEF ShownOK, Crashed, Captured, Clean, Entries

\* A run begins without ids.
LEMMA NoIds == ASSUME NEW list, NEW n, NEW objs PROVE Assigned(list, <<>>, n, objs)
<1>1. DOMAIN <<>> = {} /\ <<>> \in [{} -> Id]
  OBVIOUS
<1> QED BY <1>1 DEF Assigned

\* What ImageDone leads to.
LEMMA DoneStep ==
  ASSUME Counts, RunsOK, NEW u \in Uploads, NEW s,
         runs[u].st = "storing", runs[u].left = {s}, UNCHANGED lastPick,
         stored' = stored \union Objects(runs[u].id, {s}), ImageDone(u)
  PROVE  /\ uploadedImages' = uploadedImages \union {runs[u].file}
         /\ \/ /\ runs' = [runs EXCEPT ![u] = Idle]
               /\ onImagesChange(images') /\ images' \in Lists
               /\ Known(images', lastPick, lastId, stored') /\ Distinct(images')
               /\ Len(images') <= maxImages
               /\ returned' = returned \union Entries(images')
               /\ Entries(images') \subseteq Complete(stored')
               /\ isUploading' = FALSE
               /\ uploadingImages' = uploadingImages \ {runs[u].file}
               /\ UNCHANGED lastId
            \/ /\ RunsOK'
               /\ lastId' \in 0 .. MaxIds /\ lastId <= lastId'
               /\ runs'[u] # Idle /\ runs'[u].file \in File
               /\ uploadingImages' =
                    (uploadingImages \ {runs[u].file}) \union {runs'[u].file}
               /\ \A v \in Uploads \ {u} : runs'[v] = runs[v]
               /\ UNCHANGED <<form, isUploading, returned>>
<1> DEFINE list == runs[u].list
           file == runs[u].file
           ids == IdsOf(runs[u])
<1>1. /\ Captured(list, lastPick, lastId, stored')
      /\ Assigned(list, ids, lastId, stored')
  BY DoneIds
<1>2. lastPick \in Nat /\ lastId \in Nat
  BY DEF Counts
<1>3. /\ uploadedImages' = uploadedImages \union {file}
      /\ \/ /\ Previews(list) \subseteq DOMAIN ids
            /\ Finish(u, ids)
            /\ uploadingImages' = uploadingImages \ {file}
            /\ UNCHANGED lastId
         \/ /\ UploadImage(u, list, ids, uploadingImages \ {file})
            /\ UNCHANGED <<form, isUploading, returned>>
  BY DEF ImageDone, IdsOf
<1> HIDE DEF ids
<1>4. CASE /\ Previews(list) \subseteq DOMAIN ids
           /\ Finish(u, ids)
           /\ uploadingImages' = uploadingImages \ {file}
           /\ UNCHANGED lastId
  <2> DEFINE new == Updated(list, ids)
  <2>1. /\ new \in Lists /\ Known(new, lastPick, lastId, stored') /\ Distinct(new)
        /\ Len(new) = Len(list)
        /\ Entries(new) \subseteq Complete(stored')
    BY <1>1, <1>2, <1>4, ListUpdated
  <2>2. /\ onImagesChange(new) /\ returned' = returned \union Entries(new)
        /\ isUploading' = FALSE /\ runs' = [runs EXCEPT ![u] = Idle]
    BY <1>4 DEF Finish, Updated
  <2> HIDE DEF new
  <2>3. images' = new
    BY <2>2 DEF onImagesChange
  <2>4. onImagesChange(images')
    BY <2>2, <2>3 DEF onImagesChange
  <2> QED BY <1>1, <1>3, <1>4, <2>1, <2>2, <2>3, <2>4 DEF Captured
<1>5. CASE /\ UploadImage(u, list, ids, uploadingImages \ {file})
           /\ UNCHANGED <<form, isUploading, returned>>
  <2>1. stored \subseteq stored'
    OBVIOUS
  <2> HIDE DEF list, file
  <2>2. /\ RunsOK' /\ lastId' \in 0 .. MaxIds /\ lastId <= lastId'
        /\ runs'[u] # Idle /\ runs'[u].file \in File
        /\ uploadingImages' = (uploadingImages \ {file}) \union {runs'[u].file}
        /\ \A v \in Uploads \ {u} : runs'[v] = runs[v]
    BY <1>1, <1>5, <2>1, UploadRuns
  <2> QED BY <1>3, <1>5, <2>2 DEF file
<1> QED BY <1>3, <1>4, <1>5

\* A run that is not idle is busy.
LEMMA BusyRun ==
  ASSUME RunsOK, NEW u \in Uploads, runs[u].st # "idle"
  PROVE  /\ runs[u] # Idle /\ Busy(runs[u], lastId, stored)
         /\ Captured(runs[u].list, lastPick, lastId, stored)
         /\ runs[u].file \in File /\ runs[u].id \in Id
<1>1. runs[u] # Idle
  BY DEF Idle
<1>2. RunOK(runs[u], lastPick, lastId, stored)
  BY DEF RunsOK
<1> QED BY <1>1, <1>2 DEF RunOK, Busy

LEMMA CountsStep == ASSUME ImageInv, [Next]_vars PROVE Counts' /\ Grows
<1> USE DEF Counts, Grows
<1>0. Counts /\ RunsOK /\ ShownOK /\ lastPick <= lastPick /\ lastId <= lastId
  BY DEF ImageInv
<1>1. CASE UNCHANGED <<lastPick, lastId, selectedIndex, stored>>
  BY <1>0, <1>1
<1>2. CASE PickDone
  BY <1>0, <1>2, ConfigAssumption DEF PickDone, ConfigAssumption
<1>3. ASSUME NEW i \in 1 .. Len(images), Press(i) \/ Remove(i) PROVE Counts' /\ Grows
  <2>1. i \in 0 .. maxImages /\ 0 \in 0 .. maxImages
    BY <1>0, ConfigAssumption, LenProperties DEF ShownOK, Lists, ConfigAssumption
  <2> QED BY <1>0, <1>3, <2>1 DEF Press, Remove
<1>4. ASSUME NEW u \in Uploads, UploadStart(u) PROVE Counts' /\ Grows
  <2>1. CASE UploadImage(u, images, <<>>, uploadingImages)
    <3>1. UNCHANGED <<lastPick, selectedIndex, stored>> /\ ~Crashed
      BY <1>4 DEF UploadStart
    <3>2. Captured(images, lastPick, lastId, stored')
      BY <1>0, <3>1, Capture
    <3>3. lastId' \in 0 .. MaxIds /\ lastId <= lastId'
      BY <1>0, <2>1, <3>1, <3>2, UploadRuns, NoIds
    <3> QED BY <1>0, <3>1, <3>3
  <2> QED BY <1>1, <1>4, <2>1 DEF UploadStart
<1>5. ASSUME NEW u \in Uploads, NEW objs, objs \subseteq Sizes, runs[u].st = "storing",
             stored' = stored \union Objects(runs[u].id, objs)
      PROVE  stored' \subseteq Id \X Sizes /\ stored \subseteq stored'
  <2>1. runs[u].id \in Id
    BY <1>0, <1>5, BusyRun
  <2> QED BY <1>0, <1>5, <2>1 DEF Objects
<1>6. ASSUME NEW u \in Uploads, NEW s \in Sizes, SizeStored(u, s) PROVE Counts' /\ Grows
  <2>1. /\ runs[u].st = "storing" /\ UNCHANGED <<lastPick, selectedIndex>>
        /\ stored' = stored \union Objects(runs[u].id, {s})
    BY <1>6 DEF SizeStored
  <2>2. stored' \subseteq Id \X Sizes /\ stored \subseteq stored'
    BY <1>5, <2>1
  <2>3. UNCHANGED lastId \/ (runs[u].left = {s} /\ ImageDone(u))
    BY <1>6 DEF SizeStored
  <2>4. lastId' \in 0 .. MaxIds /\ lastId <= lastId'
    BY <1>0, <2>1, <2>3, DoneStep
  <2> QED BY <1>0, <2>1, <2>2, <2>4
<1>7. ASSUME NEW u \in Uploads, SizeFails(u) PROVE Counts' /\ Grows
  <2>1. PICK late \in SUBSET runs[u].left : stored' = stored \union Objects(runs[u].id, late)
    BY <1>7 DEF SizeFails
  <2>2. runs[u].left \subseteq Sizes
    BY <1>0 DEF RunsOK, Run
  <2>3. runs[u].st = "storing" /\ UNCHANGED <<lastPick, lastId, selectedIndex>>
    BY <1>7 DEF SizeFails, Throws
  <2>4. stored' \subseteq Id \X Sizes /\ stored \subseteq stored'
    BY <1>5, <2>1, <2>2, <2>3
  <2> QED BY <1>0, <2>3, <2>4
<1> QED
  BY <1>1, <1>2, <1>3, <1>4, <1>6, <1>7 DEF Next, vars, PickStart, PickEnds, Processed,
     ProcessFails, Throws

\* A list that is shown is the one captured with a file more, a rearrangement of
\* the present one, or the list of a run that is done.
LEMMA ShownStep == ASSUME ImageInv, [Next]_vars PROVE ShownOK'
<1>0. Counts /\ RunsOK /\ ShownOK /\ PickOK
  BY DEF ImageInv
<1>1. CASE UNCHANGED images
  BY <1>0, <1>1, CountsStep, Kept DEF ShownOK
<1>n. lastPick \in Nat /\ lastId \in Nat /\ Len(images) \in Nat
  BY <1>0, LenProperties DEF Counts, ShownOK, Lists
<1>2. CASE PickDone
  <2> DEFINE new == Append(pickFrom, -(lastPick + 1))
  <2>1. /\ isPicking /\ lastPick < MaxPicks /\ lastPick' = lastPick + 1
        /\ UNCHANGED <<lastId, stored>> /\ images' = new
    BY <1>2 DEF PickDone, onImagesChange
  <2>2. lastPick + 1 <= MaxPicks
    BY <1>n, <2>1, ConfigAssumption DEF ConfigAssumption
  <2>3. /\ new \in Lists /\ Known(new, lastPick + 1, lastId, stored) /\ Distinct(new)
        /\ Len(new) = Len(pickFrom) + 1
    BY <1>0, <1>n, <2>2, AppendedList DEF PickOK
  <2>4. Len(new) <= maxImages
    BY <1>0, <2>1, <2>3, LenProperties, ConfigAssumption
       DEF PickOK, Captured, Lists, ConfigAssumption
  <2> HIDE DEF new
  <2> QED BY <2>1, <2>3, <2>4 DEF ShownOK
<1>3. ASSUME NEW i \in 1 .. Len(images), Press(i) PROVE ShownOK'
  <2> DEFINE new == Moved(images, selectedIndex, i)
  <2>1. ~Crashed /\ UNCHANGED <<lastPick, lastId, stored>>
    BY <1>3 DEF Press
  <2>2. CASE selectedIndex # 0 /\ images' = new
    <3>1. Clean(images)
      BY <1>0, <2>1, Capture DEF Captured
    <3>2. /\ new \in Seq(Entry) /\ Distinct(new) /\ Drawn(new, images)
          /\ Len(new) = IF selectedIndex \in 1 .. Len(images)
                          THEN Len(images) ELSE Len(images) + 1
      BY <1>0, <3>1, EntryDef, MovedList DEF ShownOK, Counts
    <3>3. Len(new) <= maxImages
      BY <1>0, <1>n, <2>2, <3>2, ConfigAssumption DEF ShownOK, Counts, ConfigAssumption
    <3>4. Known(new, lastPick, lastId, stored)
      BY <1>0, <1>n, <3>2, DrawnKnown DEF ShownOK
    <3> HIDE DEF new
    <3> QED BY <2>1, <2>2, <3>2, <3>3, <3>4, EntryDef DEF ShownOK
  <2> QED BY <1>1, <1>3, <2>2 DEF Press, onImagesChange
<1>4. ASSUME NEW i \in 1 .. Len(images), Remove(i) PROVE ShownOK'
  <2> DEFINE new == Without(images, i)
  <2>1. UNCHANGED <<lastPick, lastId, stored>> /\ images' = new
    BY <1>4 DEF Remove, onImagesChange
  <2>2. /\ new \in Seq(Entry) /\ Distinct(new) /\ Drawn(new, images)
        /\ Len(new) = Len(images) - 1
    BY <1>0, EntryDef, RemovedList DEF ShownOK
  <2>3. Known(new, lastPick, lastId, stored)
    BY <1>0, <1>n, <2>2, DrawnKnown DEF ShownOK
  <2>4. Len(new) <= maxImages
    BY <1>0, <1>n, <2>2, ConfigAssumption DEF ShownOK, ConfigAssumption
  <2> HIDE DEF new
  <2> QED BY <2>1, <2>2, <2>3, <2>4, EntryDef DEF ShownOK
<1>5. ASSUME NEW u \in Uploads, NEW s \in Sizes, SizeStored(u, s) PROVE ShownOK'
  <2>1. /\ runs[u].st = "storing" /\ UNCHANGED lastPick
        /\ stored' = stored \union Objects(runs[u].id, {s})
        /\ UNCHANGED images \/ (runs[u].left = {s} /\ ImageDone(u))
    BY <1>5 DEF SizeStored
  <2>2. \/ UNCHANGED images
        \/ /\ images' \in Lists /\ Known(images', lastPick, lastId, stored')
           /\ Distinct(images') /\ Len(images') <= maxImages /\ UNCHANGED lastId
    BY <1>0, <2>1, DoneStep
  <2> QED BY <1>1, <2>1, <2>2 DEF ShownOK
<1> QED
  BY <1>1, <1>2, <1>3, <1>4, <1>5 DEF Next, vars, PickStart, PickEnds, UploadStart,
     Processed, ProcessFails, SizeFails, Throws

LEMMA PickedStep == ASSUME ImageInv, [Next]_vars PROVE PickOK'
<1>0. Counts /\ ShownOK /\ PickOK
  BY DEF ImageInv
<1>1. CASE UNCHANGED <<isPicking, pickFrom>>
  BY <1>0, <1>1, CountsStep, Kept DEF PickOK
<1>2. CASE PickStart
  BY <1>0, <1>2, Capture DEF PickStart, PickOK
<1>3. CASE PickDone \/ PickEnds
  <2>1. isPicking' = FALSE /\ pickFrom' = <<>>
    BY <1>3 DEF PickDone, PickEnds
  <2>2. \A p, n, objs : Captured(<<>>, p, n, objs)
    BY ConfigAssumption DEF ConfigAssumption, Captured, Lists, Known, Distinct, Clean
  <2> QED BY <2>1, <2>2 DEF PickOK
<1> QED
  BY <1>1, <1>2, <1>3 DEF Next, vars, Press, Remove, UploadStart, Processed, SizeStored,
     ProcessFails, SizeFails, Throws

LEMMA IdleRun ==
  ASSUME NEW p, NEW n, NEW objs PROVE RunOK(Idle, p, n, objs)
<1>1. <<>> \in UNION {[fs -> Id] : fs \in SUBSET File}
  <2>1. <<>> \in [{} -> Id]
    OBVIOUS
  <2> QED BY <2>1
<1>2. <<>> \in Lists
  BY DEF Lists
<1>3. Idle \in Run
  BY <1>1, <1>2 DEF Idle, Run
<1> QED BY <1>3 DEF RunOK

\* A run that ends leaves the others as they are.
LEMMA EndedRun ==
  ASSUME ImageInv, [Next]_vars, NEW u \in Uploads, runs' = [runs EXCEPT ![u] = Idle]
  PROVE  RunsOK'
<1>0. RunsOK /\ Counts /\ Idle \in Run
  BY IdleRun DEF ImageInv, RunOK
<1>1. runs' \in [Uploads -> Run] /\ \A v \in Uploads : runs'[v] \in {runs[v], Idle}
  BY <1>0 DEF RunsOK
<1>2. \A v \in Uploads : RunOK(runs[v], lastPick', lastId', stored')
  BY <1>0, CountsStep, Kept DEF RunsOK
<1>3. RunOK(Idle, lastPick', lastId', stored')
  BY IdleRun
<1> QED BY <1>1, <1>2, <1>3 DEF RunsOK

\* A run that goes on with the upload under way keeps its list, its ids and its file.
LEMMA GoesOn ==
  ASSUME RunsOK, Counts, Counts', Grows, NEW u \in Uploads, runs[u].st # "idle", NEW left,
         left \subseteq Sizes, Objects(runs[u].id, Sizes \ left) \subseteq stored',
         runs' = [runs EXCEPT ![u].st = "storing", ![u].left = left]
  PROVE  /\ RunsOK'
         /\ \A v \in Uploads : runs'[v].file = runs[v].file
         /\ \A v \in Uploads : runs[v] # Idle => runs'[v] # Idle
<1> DEFINE r == [runs[u] EXCEPT !.st = "storing", !.left = left]
<1>1. runs[u] \in Run /\ \A v \in Uploads : runs'[v] = IF v = u THEN r ELSE runs[v]
  BY DEF RunsOK
<1>2. /\ r \in Run /\ r.st = "storing" /\ r.left = left /\ r.list = runs[u].list
      /\ r.ids = runs[u].ids /\ r.file = runs[u].file /\ r.id = runs[u].id
  BY <1>1 DEF Run
<1>3. runs' = [runs EXCEPT ![u] = r]
  OBVIOUS
<1> HIDE DEF r
<1>4. runs' \in [Uploads -> Run]
  BY <1>2, <1>3 DEF RunsOK
<1>5. \A v \in Uploads : RunOK(runs[v], lastPick', lastId', stored')
  BY Kept DEF RunsOK
<1>6. /\ Captured(runs[u].list, lastPick', lastId', stored')
      /\ Busy(runs[u], lastId', stored')
  <2>1. runs[u] # Idle
    BY BusyRun
  <2>2. RunOK(runs[u], lastPick', lastId', stored')
    BY <1>5
  <2> QED BY <2>1, <2>2 DEF RunOK
<1>7. Busy(r, lastId', stored')
  BY <1>2, <1>6 DEF Busy
<1>8. RunOK(r, lastPick', lastId', stored')
  BY <1>2, <1>6, <1>7 DEF RunOK
<1>9. r # Idle
  BY <1>2 DEF Idle
<1>10. RunsOK'
  BY <1>1, <1>4, <1>5, <1>8 DEF RunsOK
<1> QED BY <1>1, <1>2, <1>9, <1>10

LEMMA RunsStep == ASSUME ImageInv, [Next]_vars PROVE RunsOK'
<1>0. Counts /\ RunsOK /\ ShownOK /\ Counts' /\ Grows
  BY CountsStep DEF ImageInv
<1>1. CASE UNCHANGED runs
  BY <1>0, <1>1, Kept DEF RunsOK
<1>2. ASSUME NEW u \in Uploads, UploadStart(u) PROVE RunsOK'
  <2>1. CASE UploadImage(u, images, <<>>, uploadingImages)
    <3>1. UNCHANGED <<lastPick, stored>> /\ ~Crashed
      BY <1>2 DEF UploadStart
    <3>2. Captured(images, lastPick, lastId, stored')
      BY <1>0, <3>1, Capture
    <3> QED BY <1>0, <2>1, <3>1, <3>2, UploadRuns, NoIds
  <2> QED BY <1>1, <1>2, <2>1 DEF UploadStart
<1>3. ASSUME NEW u \in Uploads, Processed(u) PROVE RunsOK'
  <2>1. /\ runs[u].st # "idle" /\ Sizes \subseteq Sizes
        /\ Objects(runs[u].id, Sizes \ Sizes) \subseteq stored'
        /\ runs' = [runs EXCEPT ![u].st = "storing", ![u].left = Sizes]
    BY <1>3 DEF Processed, Objects
  <2> QED BY <1>0, <2>1, GoesOn
<1>4. ASSUME NEW u \in Uploads, NEW s \in Sizes, SizeStored(u, s) PROVE RunsOK'
  <2>1. /\ runs[u].st = "storing" /\ UNCHANGED lastPick
        /\ stored' = stored \union Objects(runs[u].id, {s})
    BY <1>4 DEF SizeStored
  <2>2. CASE runs' = [runs EXCEPT ![u].left = runs[u].left \ {s}]
    <3> DEFINE left == runs[u].left \ {s}
    <3>1. left \subseteq Sizes /\ Objects(runs[u].id, Sizes \ left) \subseteq stored'
      <4>1. Busy(runs[u], lastId, stored) /\ runs[u].left \subseteq Sizes
        BY <1>0, <2>1, BusyRun DEF RunsOK, Run
      <4> QED BY <2>1, <4>1 DEF Busy, Objects
    <3>2. runs' = [runs EXCEPT ![u].st = "storing", ![u].left = left]
      BY <1>0, <2>1, <2>2 DEF RunsOK, Run
    <3> HIDE DEF left
    <3>3. runs[u].st # "idle"
      BY <2>1
    <3> QED BY <1>0, <3>1, <3>2, <3>3, GoesOn
  <2>3. CASE runs[u].left = {s} /\ ImageDone(u)
    BY <1>0, <2>1, <2>3, DoneStep, EndedRun
  <2> QED BY <1>4, <2>2, <2>3 DEF SizeStored
<1>5. ASSUME NEW u \in Uploads, ProcessFails(u) \/ SizeFails(u) PROVE RunsOK'
  BY <1>5, EndedRun DEF ProcessFails, SizeFails, Throws
<1> QED
  BY <1>1, <1>2, <1>3, <1>4, <1>5 DEF Next, vars, PickStart, PickDone, PickEnds, Press,
     Remove

\* Only what is complete is returned.
LEMMA ReturnedStep == ASSUME ImageInv, [Next]_vars PROVE ReturnedOK'
<1>0. Counts /\ RunsOK /\ ShownOK /\ ReturnedOK /\ Grows
  BY CountsStep DEF ImageInv
<1>1. Complete(stored) \subseteq Complete(stored')
  BY <1>0 DEF Complete, Grows
<1>2. CASE UNCHANGED returned
  BY <1>0, <1>1, <1>2 DEF ReturnedOK
<1>3. ASSUME NEW u \in Uploads, UploadStart(u) PROVE ReturnedOK'
  <2>1. CASE Previews(images) = {} /\ returned' = returned \union Entries(images)
    <3>1. Entries(images) \subseteq Complete(stored)
      <4> SUFFICES ASSUME NEW i \in 1 .. Len(images) PROVE images[i] \in Complete(stored)
        BY DEF Entries
      <4>1. images[i] \in Entry /\ images[i] # 0 /\ ~ isPreviewImage(images[i])
        BY <1>0, <1>3, <2>1, EntryDef, ElementOfSeq
           DEF ShownOK, UploadStart, Crashed, Previews, Entries, undefined
      <4>2. images[i] > 0 /\ images[i] \in Id
        BY <4>1, EntryDef DEF isPreviewImage
      <4> QED BY <1>0, <4>2 DEF ShownOK, Known, Complete
    <3> QED BY <1>0, <1>1, <2>1, <3>1 DEF ReturnedOK
  <2> QED BY <1>2, <1>3, <2>1 DEF UploadStart
<1>4. ASSUME NEW u \in Uploads, NEW s \in Sizes, SizeStored(u, s) PROVE ReturnedOK'
  <2>1. /\ runs[u].st = "storing" /\ UNCHANGED lastPick
        /\ stored' = stored \union Objects(runs[u].id, {s})
        /\ UNCHANGED returned \/ (runs[u].left = {s} /\ ImageDone(u))
    BY <1>4 DEF SizeStored
  <2>2. \/ UNCHANGED returned
        \/ /\ returned' = returned \union Entries(images')
           /\ Entries(images') \subseteq Complete(stored')
    BY <1>0, <2>1, DoneStep
  <2> QED BY <1>0, <1>1, <1>2, <2>2 DEF ReturnedOK
<1> QED
  BY <1>2, <1>3, <1>4 DEF Next, vars, PickStart, PickDone, PickEnds, Press, Remove,
     Processed, ProcessFails, SizeFails, Throws

LEMMA RememberedStep == ASSUME ImageInv, [Next]_vars PROVE Remembered'
<1>0. Remembered /\ images' \in Lists
  BY ShownStep DEF ImageInv, ShownOK
<1>1. CASE UNCHANGED form
  BY <1>0, <1>1 DEF Remembered
<1>2. CASE onImagesChange(images')
  BY <1>0, <1>2 DEF Remembered, onImagesChange
<1>3. ASSUME NEW list, onImagesChange(list) PROVE Remembered'
  <2>1. onImagesChange(images')
    BY <1>3 DEF onImagesChange
  <2> QED BY <1>2, <2>1
<1>4. ASSUME NEW u \in Uploads, ImageDone(u) PROVE Remembered'
  BY <1>1, <1>3, <1>4 DEF ImageDone, Finish
<1> QED
  BY <1>1, <1>3, <1>4 DEF Next, vars, PickStart, PickDone, PickEnds, Press, Remove,
     UploadStart, Processed, SizeStored, ProcessFails, SizeFails, Throws

LEMMA SwitchesStep == ASSUME ImageInv, [Next]_vars PROVE Switches'
<1> USE DEF Switches
<1>0. Switches
  BY DEF ImageInv
<1>1. CASE UNCHANGED <<isPicking, isUploading>>
  BY <1>0, <1>1
<1>2. CASE PickStart \/ PickDone \/ PickEnds
  BY <1>0, <1>2, Zenon DEF PickStart, PickDone, PickEnds
<1>3. ASSUME NEW u \in Uploads, UploadStart(u) PROVE Switches'
  BY <1>0, <1>3, Zenon DEF UploadStart
<1>4. ASSUME NEW u \in Uploads, NEW s \in Sizes, SizeStored(u, s) PROVE Switches'
  BY <1>0, <1>4, Zenon DEF SizeStored, ImageDone, Finish
<1>5. ASSUME NEW u \in Uploads, ProcessFails(u) \/ SizeFails(u) PROVE Switches'
  BY <1>0, <1>5, Zenon DEF ProcessFails, SizeFails, Throws
<1> QED
  BY <1>1, <1>2, <1>3, <1>4, <1>5 DEF Next, vars, Press, Remove, Processed

\* A file loses its spinner with the run that uploads it.
LEMMA SpinnersStep == ASSUME ImageInv, [Next]_vars PROVE SpinnersOK'
<1> USE DEF SpinnersOK, SpinnerStops
<1>0. Counts /\ RunsOK /\ ShownOK /\ SpinnersOK /\ Counts' /\ Grows
  BY CountsStep DEF ImageInv
<1>r. \A v \in Uploads : runs[v] \in Run
  BY <1>0 DEF RunsOK
<1>1. CASE UNCHANGED <<isUploading, uploadingImages, uploadedImages, runs>>
  BY <1>0, <1>1
<1>2. ASSUME NEW u \in Uploads, NEW old, old \subseteq uploadingImages,
             runs[u].file \notin old,
             runs'[u] # Idle, runs'[u].file \in File,
             uploadingImages' = old \union {runs'[u].file},
             uploadedImages' \subseteq File,
             \A v \in Uploads \ {u} : runs'[v] = runs[v]
      PROVE  SpinnersOK'
  <2>1. ASSUME NEW f \in old PROVE \E v \in Uploads : runs'[v].file = f
    <3>1. PICK v \in Uploads : runs[v].file = f
      BY <1>0, <1>2
    <3> QED BY <1>2, <3>1
  <2>2. \A f \in uploadingImages' : \E v \in Uploads : runs'[v].file = f
    BY <1>2, <2>1
  <2> QED BY <1>0, <1>2, <2>2
<1>3. ASSUME NEW u \in Uploads, UploadStart(u) PROVE SpinnersOK'
  <2>1. CASE UploadImage(u, images, <<>>, uploadingImages)
    <3>1. UNCHANGED <<lastPick, stored, uploadedImages>> /\ ~Crashed /\ runs[u] = Idle
      BY <1>3 DEF UploadStart
    <3>2. Captured(images, lastPick, lastId, stored')
      BY <1>0, <3>1, Capture
    <3>3. /\ runs'[u] # Idle /\ runs'[u].file \in File
          /\ uploadingImages' = uploadingImages \union {runs'[u].file}
          /\ \A v \in Uploads \ {u} : runs'[v] = runs[v]
      BY <1>0, <2>1, <3>1, <3>2, UploadRuns, NoIds
    <3>4. runs[u].file \notin uploadingImages
      BY <1>0, <3>1, EntryDef DEF Idle
    <3> QED BY <1>0, <1>2, <3>1, <3>3, <3>4
  <2> QED BY <1>1, <1>3, <2>1 DEF UploadStart
<1>4. CASE /\ \A v \in Uploads : runs'[v].file = runs[v].file
           /\ \A v \in Uploads : runs[v] # Idle => runs'[v] # Idle
           /\ UNCHANGED <<isUploading, uploadingImages, uploadedImages>>
  BY <1>0, <1>4
<1>5. ASSUME NEW u \in Uploads, Processed(u) PROVE SpinnersOK'
  <2>1. /\ runs' = [runs EXCEPT ![u].st = "storing", ![u].left = Sizes]
        /\ UNCHANGED <<isUploading, uploadingImages, uploadedImages>>
        /\ runs[u].st # "idle"
    BY <1>5 DEF Processed
  <2>2. Objects(runs[u].id, Sizes \ Sizes) \subseteq stored'
    BY DEF Objects
  <2>3. /\ \A v \in Uploads : runs'[v].file = runs[v].file
        /\ \A v \in Uploads : runs[v] # Idle => runs'[v] # Idle
    BY <1>0, <2>1, <2>2, GoesOn
  <2> QED BY <1>4, <2>1, <2>3
<1>e. ASSUME NEW u \in Uploads, runs' = [runs EXCEPT ![u] = Idle], isUploading' = FALSE,
             uploadingImages' = uploadingImages \ {runs[u].file},
             uploadedImages' \subseteq File
      PROVE  SpinnersOK'
  <2>1. \A v \in Uploads \ {u} : runs'[v] = runs[v]
    BY <1>0, <1>e DEF RunsOK
  <2>2. ASSUME NEW f \in uploadingImages' PROVE \E v \in Uploads : runs'[v].file = f
    <3>1. PICK v \in Uploads : runs[v].file = f
      BY <1>0, <1>e
    <3> QED BY <1>e, <2>1, <3>1
  <2> QED BY <1>0, <1>e, <2>2
<1>6. ASSUME NEW u \in Uploads, NEW s \in Sizes, SizeStored(u, s) PROVE SpinnersOK'
  <2>1. /\ runs[u].st = "storing" /\ UNCHANGED lastPick
        /\ stored' = stored \union Objects(runs[u].id, {s})
    BY <1>6 DEF SizeStored
  <2>2. CASE /\ runs' = [runs EXCEPT ![u].left = runs[u].left \ {s}]
             /\ UNCHANGED <<isUploading, uploadingImages, uploadedImages>>
    <3>1. \A v \in Uploads : runs'[v].file = runs[v].file /\ runs'[v].st = runs[v].st
      BY <1>0, <1>r, <2>2 DEF RunsOK, Run
    <3>2. \A v \in Uploads \ {u} : runs'[v] = runs[v]
      BY <1>0, <2>2 DEF RunsOK
    <3>3. runs'[u] # Idle
      BY <2>1, <3>1 DEF Idle
    <3> QED BY <1>4, <2>2, <3>1, <3>2, <3>3
  <2>3. CASE runs[u].left = {s} /\ ImageDone(u)
    <3>1. runs[u].file \in File
      BY <1>0, <2>1, BusyRun
    <3>2. \/ /\ runs' = [runs EXCEPT ![u] = Idle] /\ isUploading' = FALSE
             /\ uploadingImages' = uploadingImages \ {runs[u].file}
          \/ /\ runs'[u] # Idle /\ runs'[u].file \in File
             /\ uploadingImages' =
                  (uploadingImages \ {runs[u].file}) \union {runs'[u].file}
             /\ \A v \in Uploads \ {u} : runs'[v] = runs[v]
      BY <1>0, <2>1, <2>3, DoneStep
    <3>3. uploadedImages' \subseteq File
      BY <1>0, <2>3, <3>1 DEF ImageDone
    <3>4. /\ uploadingImages \ {runs[u].file} \subseteq uploadingImages
          /\ runs[u].file \notin uploadingImages \ {runs[u].file}
      OBVIOUS
    <3> QED BY <1>2, <1>e, <3>2, <3>3, <3>4
  <2> QED BY <1>6, <2>2, <2>3 DEF SizeStored
<1>7. ASSUME NEW u \in Uploads, ProcessFails(u) \/ SizeFails(u) PROVE SpinnersOK'
  BY <1>0, <1>e, <1>7 DEF ProcessFails, SizeFails, Throws
<1> QED
  BY <1>1, <1>3, <1>5, <1>6, <1>7 DEF Next, vars, PickStart, PickDone, PickEnds, Press,
     Remove

LEMMA ImageInit == Init => ImageInv
<1> SUFFICES ASSUME Init PROVE ImageInv
  OBVIOUS
<1>1. PICK n \in 0 .. maxImages :
        /\ images = [i \in 1 .. n |-> i] /\ lastId = n
        /\ stored = UNION {Objects(i, Sizes) : i \in 1 .. n}
  BY DEF Init
<1>2. n \in Nat /\ n <= maxImages /\ maxImages <= MaxIds /\ MaxIds \in Nat
      /\ MaxPicks \in Nat /\ maxImages \in Nat
  BY ConfigAssumption DEF ConfigAssumption
<1>3. images \in Seq(Entry) /\ Len(images) = n /\ \A i \in 1 .. n : images[i] = i
  <2>1. images \in [1 .. n -> Entry]
    BY <1>1, <1>2 DEF Entry
  <2> QED BY <1>1, <1>2, <2>1
<1>4. Switches
  BY Zenon DEF Init, Switches
<1>5. Counts
  <2>1. stored \subseteq Id \X Sizes
    BY <1>1, <1>2 DEF Objects, Id
  <2> QED BY <1>1, <1>2, <2>1 DEF Init, Counts
<1>6. ShownOK
  <2>1. \A i \in 1 .. n : Objects(i, Sizes) \subseteq stored
    BY <1>1
  <2>2. Known(images, lastPick, lastId, stored)
    BY <1>1, <1>2, <1>3, <2>1 DEF Init, Known
  <2> QED BY <1>2, <1>3, <2>2, EntryDef DEF ShownOK, Distinct
<1>7. PickOK
  BY <1>2 DEF Init, PickOK, Captured, Lists, Known, Distinct, Clean
<1>8. RunsOK
  <2>1. Idle \in Run /\ RunOK(Idle, lastPick, lastId, stored)
    BY IdleRun DEF RunOK
  <2> QED BY <2>1 DEF Init, RunsOK
<1>9. ReturnedOK /\ SpinnersOK /\ Remembered
  BY <1>3, EntryDef DEF Init, ReturnedOK, SpinnersOK, SpinnerStops, Remembered
<1> QED BY <1>4, <1>5, <1>6, <1>7, <1>8, <1>9 DEF ImageInv

LEMMA ImageInvariance == Spec => []ImageInv
<1>1. ImageInv /\ [Next]_vars => ImageInv'
  BY CountsStep, SwitchesStep, ShownStep, PickedStep, RunsStep, ReturnedStep,
     SpinnersStep, RememberedStep DEF ImageInv
<1> QED BY <1>1, ImageInit, PTL DEF Spec

-----------------------------------------------------------------------------
(***************************************************************************)
(* What the hook promises                                                  *)
(***************************************************************************)
\* The hook's, the grid's and the bucket's state have their types.
THEOREM TypeCorrect == Spec => []TypeOK
<1>1. ImageInv => TypeOK
  <2> SUFFICES ASSUME ImageInv PROVE TypeOK
    OBVIOUS
  <2>1. selectedIndex \in Nat
    BY ConfigAssumption DEF ConfigAssumption, ImageInv, Counts
  <2>2. returned \subseteq Id
    BY DEF ImageInv, ReturnedOK, Complete
  <2> QED
    BY <2>1, <2>2 DEF ImageInv, TypeOK, Counts, Switches, ShownOK, PickOK, Captured,
       RunsOK, SpinnersOK, Remembered
<1> QED BY <1>1, ImageInvariance, PTL

\* An id that is shown or returned for saving is one of an image stored in every
\* required size, whichever sizes failed and whichever lists were put back.
THEOREM ShownIdsComplete == Spec => []IdsComplete
<1>1. ImageInv => IdsComplete
  <2> SUFFICES ASSUME ImageInv,
                      NEW id \in (Entries(images) \intersect Id) \union returned
               PROVE  Objects(id, Sizes) \subseteq stored
    BY DEF IdsComplete
  <2>1. CASE id \in returned
    BY <2>1 DEF ImageInv, ReturnedOK, Complete
  <2>2. CASE id \in Entries(images) \intersect Id
    <3>1. id > 0
      BY <2>2 DEF Id
    <3> QED BY <2>2, <3>1 DEF ImageInv, ShownOK, Known, Entries
  <2> QED BY <2>1, <2>2
<1> QED BY <1>1, ImageInvariance, PTL

\* The list never exceeds maxImages, although pickImage checks the limit before it
\* waits for the picker and a move may insert an entry.
THEOREM LimitIsKept == Spec => []LimitKept
<1>1. ImageInv => LimitKept
  BY DEF ImageInv, ShownOK, LimitKept
<1> QED BY <1>1, ImageInvariance, PTL

\* The keys of the grid are unique.
THEOREM KeysAreUnique == Spec => []UniqueKeys
<1>1. ImageInv => UniqueKeys
  BY DEF ImageInv, ShownOK, Distinct, UniqueKeys
<1> QED BY <1>1, ImageInvariance, PTL

\* isUploading and the spinners of the files go with the runs.
THEOREM SpinnersStop == Spec => []SpinnerStops
<1>1. ImageInv => SpinnerStops
  BY DEF ImageInv, SpinnersOK
<1> QED BY <1>1, ImageInvariance, PTL

\* hasUnsavedChanges tells whether the list differs from the one the form was
\* opened with.
THEOREM ChangesAreNoticed == Spec => []ChangesNoticed
<1>1. ImageInv => ChangesNoticed
  <2> SUFFICES ASSUME ImageInv, opened # <<>>
               PROVE  hasUnsavedChanges <=> images # opened
    BY DEF ChangesNoticed, hasUnsavedChanges
  <2>1. initialImages = opened /\ images \in Seq(Entry) /\ opened \in Seq(Entry)
    BY EntryDef DEF ImageInv, Remembered, ShownOK
  <2>2. ASSUME images = opened PROVE ~hasUnsavedChanges
    BY <2>1, <2>2 DEF hasUnsavedChanges
  <2>3. ASSUME images # opened PROVE hasUnsavedChanges
    <3>1. \/ Len(opened) # Len(images)
          \/ \E i \in 1 .. Len(opened) : opened[i] # images[i]
      BY <2>1, <2>3, SeqEqual
    <3> QED BY <2>1, <3>1 DEF hasUnsavedChanges
  <2> QED BY <2>2, <2>3
<1> QED BY <1>1, ImageInvariance, PTL

=============================================================================
