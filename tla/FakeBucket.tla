----------------------------- MODULE FakeBucket -----------------------------
(***************************************************************************)
(* internal/storage/fake/bucket.go: an in-memory bucket, as operators from *)
(* a bucket and a request to the bucket after it and the answer.           *)
(*                                                                         *)
(* A name is the sequence of its components between the slashes, as        *)
(* strings.Split(name, "/") yields them: "a/b" is <<2, 3>>, "a/" is        *)
(* <<2, 0>> and "" is <<0>>, with 0 the empty component and Dot the ".".    *)
(* Components compare as numbers: no component is a prefix of another.     *)
(* Prefixes end in a slash (or are empty), as everywhere in the callers.   *)
(*                                                                         *)
(* An operator is one step only where the code does it so: see Unlocked.   *)
(***************************************************************************)
EXTENDS Integers, Sequences, FiniteSets, SequencesExt

Nil == -1             \* an absent precondition or range
Dot == 1
Top == 99             \* above every component
Empty == <<0>>        \* the empty string

Less(m, n) ==
    \/ IsStrictPrefix(m, n)
    \/ \E i \in DOMAIN m \cap DOMAIN n :
          m[i] < n[i] /\ SubSeq(m, 1, i - 1) = SubSeq(n, 1, i - 1)

HasPrefix(n, p) == Len(n) >= Len(p) /\ SubSeq(n, 1, Len(p) - 1) = Front(p)

\* p + n and strings.TrimPrefix(n, p).
Concat(p, n) == Front(p) \o n
TrimPrefix(n, p) == IF HasPrefix(n, p) THEN SubSeq(n, Len(p), Len(n)) ELSE n

prefixSuccessor(p) == IF p = Empty THEN Empty ELSE Append(Front(p), Top)

\* sort.Search: the smallest position whose name is not below n.
lowerBound(names, n) ==
    LET search[i \in 0..Len(names), j \in 0..Len(names)] ==
            IF i >= j THEN i
            ELSE LET h == (i + j) \div 2
                 IN  IF Less(names[h + 1], n) THEN search[h + 1, j] ELSE search[i, h]
    IN  search[0, Len(names)] + 1

\* The position of n, or one past the end.
find(names, n) ==
    LET i == lowerBound(names, n)
    IN  IF i <= Len(names) /\ names[i] = n THEN i ELSE Len(names) + 1

Names(objects) == [i \in DOMAIN objects |-> objects[i].name]
Sorted(objects) == SortSeq(objects, LAMBDA x, y : Less(x.name, y.name))
SortedNames(names) == SortSeq(names, Less)

\* The object called n, if there is one.
Has(b, n) == find(Names(b.objects), n) <= Len(b.objects)
Get(b, n) == b.objects[find(Names(b.objects), n)]
HasFolder(b, n) == find(b.folders, n) <= Len(b.folders)

\* Requests and answers, with the fields an operation does not use at rest.
NoRequest == [op |-> "none", name |-> Empty, dst |-> Empty, gen |-> Nil, meta |-> Nil,
              data |-> <<>>, corrupt |-> FALSE, srcs |-> <<>>, lo |-> Nil, hi |-> Nil,
              max |-> 0, delim |-> FALSE, trailing |-> FALSE, token |-> Empty]
NoAnswer == [err |-> "none", name |-> Empty, gen |-> 0, meta |-> 0, data |-> <<>>,
             objs |-> <<>>, runs |-> <<>>, token |-> Empty]
Nothing == [name |-> Empty, gen |-> 0, meta |-> 0]
Failed(b, e) == [bkt |-> b, ans |-> [NoAnswer EXCEPT !.err = e]]
Done(b, o) == [bkt |-> b, ans |-> [NoAnswer EXCEPT !.err = "ok", !.name = o.name,
                                                   !.gen = o.gen, !.meta = o.meta]]

\* Put an object in the place of the one with its name, or insert it.
Put(b, o) ==
    IF Has(b, o.name)
    THEN [b EXCEPT !.objects[find(Names(b.objects), o.name)] = o]
    ELSE [b EXCEPT !.objects = Sorted(Append(b.objects, o))]
Drop(b, n) == [b EXCEPT !.objects = RemoveAt(b.objects, find(Names(b.objects), n))]

checkName(n) == n # Empty

\* A new object: the next generation, metageneration one, updated now.
mintObjectAgain(b, n, data) ==       \* mutant: the counter is used before it is raised
    [name |-> n, gen |-> b.prevGeneration, meta |-> 1, data |-> data,
     components |-> 1, updated |-> "now"]
mintObject(b, n, data) ==
    [name |-> n, gen |-> b.prevGeneration + 1, meta |-> 1, data |-> data,
     components |-> 1, updated |-> "now"]

\* The folders on the way to path: filepath.Dir, then every prefix of it, each
\* looked up among the folders as they are, and one sort at the end.
addFolderEntry(b, path) ==
    LET dir == IF Len(path) = 1 THEN <<Dot>> ELSE Front(path)
        folder(i) == Append(SubSeq(dir, 1, i), 0)
        add[i \in 0..Len(dir)] ==
            IF i = 0 THEN b.folders
            ELSE LET fs == add[i - 1]
                 IN  IF find(fs, folder(i)) = Len(fs) + 1 THEN Append(fs, folder(i)) ELSE fs
    IN  [b EXCEPT !.folders = SortedNames(add[Len(dir)])]

\* "ok" or the error: the checksum, then the generation (zero: must not exist),
\* then the metageneration.
preconditionExists(b, r) ==           \* mutant: any generation will do
    IF r.corrupt THEN "checksum"
    ELSE IF (r.gen = 0) = Has(b, r.name) /\ r.gen >= 0 THEN "precondition"
    ELSE "ok"
preconditionChecks(b, r) ==
    LET exists == Has(b, r.name)
        o == Get(b, r.name)
    IN  IF r.corrupt THEN "checksum"
        ELSE IF \/ r.gen = 0 /\ exists
                \/ r.gen > 0 /\ (~exists \/ o.gen # r.gen)
                \/ r.meta # Nil /\ (~exists \/ o.meta # r.meta)
        THEN "precondition"
        ELSE "ok"

\* On a zonal bucket the contents are appended to those of the object there.
createOrUpdateFakeObject(b, r, data) ==
    LET content == IF b.zonal /\ Has(b, r.name) THEN Get(b, r.name).data \o data ELSE data
        o == mintObject(b, r.name, content)
        put == [Put(b, o) EXCEPT !.prevGeneration = @ + 1]
    IN  Done(IF b.hns THEN addFolderEntry(put, r.name) ELSE put, o)

createObjectLocked(b, r, data) ==
    IF ~checkName(r.name) THEN Failed(b, "invalid")
    ELSE IF preconditionChecks(b, r) # "ok" THEN Failed(b, preconditionChecks(b, r))
    ELSE createOrUpdateFakeObject(b, r, data)

\* The object of a generation (zero: whichever is live).
Found(b, n, g) == Has(b, n) /\ (g <= 0 \/ Get(b, n).gen = g)

\* The bytes [lo, hi) of a sequence, with the clamping of newReaderLocked.
Slice(data, lo, hi) ==
    LET start == IF lo > hi \/ lo > Len(data) THEN 0 ELSE lo
        limit == IF lo > hi \/ lo > Len(data) THEN 0 ELSE IF hi > Len(data) THEN Len(data) ELSE hi
    IN  IF lo = Nil THEN data ELSE SubSeq(data, start + 1, limit)

newReaderLocked(b, r) ==
    IF ~Found(b, r.name, r.gen) THEN Failed(b, "notfound")
    ELSE [Done(b, Get(b, r.name)) EXCEPT !.ans.data = Slice(Get(b, r.name).data, r.lo, r.hi)]

\* A precondition on the metageneration of a source.
MetaOK(b, n, m) == m = Nil \/ Get(b, n).meta = m

\* The copy has a new generation and keeps everything else, metageneration included.
CopyObject(b, r) ==
    LET o == [Get(b, r.name) EXCEPT !.name = r.dst, !.gen = b.prevGeneration + 1]
    IN  IF ~checkName(r.dst) THEN Failed(b, "invalid")
        ELSE IF ~Found(b, r.name, r.gen) THEN Failed(b, "notfound")
        ELSE IF ~MetaOK(b, r.name, r.meta) THEN Failed(b, "precondition")
        ELSE Done([Put(b, o) EXCEPT !.prevGeneration = @ + 1], o)

\* MoveObject removes the source before it puts the copy in place.
MoveObjectInPlace(b, r) ==            \* mutant: the copy takes the source's place
    LET i == find(Names(b.objects), r.name)
        o == [Get(b, r.name) EXCEPT !.name = r.dst, !.gen = b.prevGeneration + 1]
    IN  IF ~Found(b, r.name, r.gen) THEN Failed(b, "notfound")
        ELSE Done([b EXCEPT !.prevGeneration = @ + 1, !.objects[i] = o], o)
MoveObject(b, r) ==
    LET o == [Get(b, r.name) EXCEPT !.name = r.dst, !.gen = b.prevGeneration + 1]
    IN  IF ~checkName(r.dst) THEN Failed(b, "invalid")
        ELSE IF ~Found(b, r.name, r.gen) THEN Failed(b, "notfound")
        ELSE IF ~MetaOK(b, r.name, r.meta) THEN Failed(b, "precondition")
        ELSE Done([Put(Drop(b, r.name), o) EXCEPT !.prevGeneration = @ + 1], o)

MaxSources == 2       \* bound: gcs.MaxSourcesPerComposeRequest
MaxComponents == 3    \* bound: gcs.MaxComponentCount

\* Sources are read, then the destination is created with their contents, and
\* its component count is put right.
ComposeObjects(b, r) ==
    LET missing == \E i \in DOMAIN r.srcs : ~Found(b, r.srcs[i].name, r.srcs[i].gen)
        src(i) == Get(b, r.srcs[i].name)
        data == FlattenSeq([i \in DOMAIN r.srcs |-> src(i).data])
        count == FoldLeft(+, 0, [i \in DOMAIN r.srcs |-> src(i).components])
        made == createObjectLocked(b, [r EXCEPT !.name = r.dst], data)
    IN  IF Len(r.srcs) \notin 1..MaxSources THEN Failed(b, "invalid")
        ELSE IF missing THEN Failed(b, "notfound")
        ELSE IF count > MaxComponents THEN Failed(b, "invalid")
        ELSE IF made.ans.err # "ok" THEN made
        ELSE [made EXCEPT !.bkt.objects =
                 [i \in DOMAIN @ |-> IF @[i].name = r.dst THEN [@[i] EXCEPT !.components = count]
                                     ELSE @[i]]]

StatObject(b, r) ==
    IF Has(b, r.name) THEN Done(b, Get(b, r.name)) ELSE Failed(b, "notfound")

UpdateObject(b, r) ==
    LET o == [Get(b, r.name) EXCEPT !.meta = @ + 1, !.updated = "now"]
    IN  IF ~Found(b, r.name, r.gen) THEN Failed(b, "notfound")
        ELSE IF ~MetaOK(b, r.name, r.meta) THEN Failed(b, "precondition")
        ELSE Done(Put(b, o), o)

\* Deleting what is not there, or is of another generation, succeeds; the
\* service itself (b.fake is FALSE) answers that it was not found.
DeleteObject(b, r) ==
    IF ~Found(b, r.name, r.gen) THEN IF b.fake THEN Done(b, Nothing) ELSE Failed(b, "notfound")
    ELSE IF ~MetaOK(b, r.name, r.meta) THEN Failed(b, "precondition")
    ELSE Done(Drop(b, r.name), Nothing)

\* A folder is an entry in folders and an object of its name without generation.
Folder(n) == [name |-> n, gen |-> 0, meta |-> 0, data |-> <<>>, components |-> 0,
              updated |-> "old"]

CreateFolder(b, r) ==
    IF ~checkName(r.name) THEN Failed(b, "invalid")
    ELSE Done([Put(b, Folder(r.name)) EXCEPT !.folders =
                  IF HasFolder(b, r.name) THEN b.folders
                  ELSE SortedNames(Append(b.folders, r.name))], Folder(r.name))

DeleteFolder(b, r) ==
    LET gone == [b EXCEPT !.folders = RemoveAt(@, find(b.folders, r.name))]
    IN  IF ~HasFolder(b, r.name) THEN Done(b, Nothing)
        ELSE IF ~Has(b, r.name) THEN Done(gone, Nothing)
        ELSE Done(Drop(gone, r.name), Nothing)

GetFolder(b, r) ==
    IF HasFolder(b, r.name) THEN Done(b, Folder(r.name)) ELSE Failed(b, "notfound")

\* Every folder and every object under the folder takes its new name and keeps
\* its generation.
RenameFolder(b, r) ==
    LET renamed(n) == IF HasPrefix(n, r.name) THEN Concat(r.dst, TrimPrefix(n, r.name)) ELSE n
        moved(o) == IF HasPrefix(o.name, r.name)
                    THEN [o EXCEPT !.name = renamed(@), !.updated = "now"] ELSE o
    IN  IF ~checkName(r.dst) THEN Failed(b, "invalid")
        ELSE IF ~HasFolder(b, r.name) THEN Failed(b, "notfound")
        ELSE Done([b EXCEPT
                      !.folders = SortedNames([i \in DOMAIN b.folders |-> renamed(b.folders[i])]),
                      !.objects = Sorted([i \in DOMAIN b.objects |-> moved(b.objects[i])])],
                  Folder(r.dst))

NewMultiRangeDownloader(b, r) ==
    IF ~Found(b, r.name, r.gen) THEN Failed(b, "notfound")
    ELSE IF Get(b, r.name).gen = 0 THEN Failed(b, "invalid")
    ELSE Done(b, Get(b, r.name))

DefaultMaxResults == 2    \* bound: the 1000 of a request that names no limit

\* The prefix of n up to the first delimiter after the query's prefix, if there is
\* one, and whether n is shown only through it: it lies further down, or below a
\* folder.
Deep(r, n) == r.delim /\ Len(n) > Len(r.name)
Run(r, n) == Append(SubSeq(n, 1, Len(r.name)), 0)
OnlyRun(b, r, n) == Deep(r, n) /\ (n # Run(r, n) \/ ~r.trailing \/ HasFolder(b, n))

\* Where the next page begins: past everything under the prefix shown last.
NextName(b, r, last, next) == next    \* mutant
PageToken(b, r, last, next) ==
    IF OnlyRun(b, r, last) THEN prefixSuccessor(Run(r, last)) ELSE next

\* One page: the objects from the continuation token on, each prefix once, and
\* where to continue.
ListObjects(b, r) ==
    LET names == Names(b.objects)
        maxResults == IF r.max = 0 THEN DefaultMaxResults ELSE r.max
        nameStart == IF r.token # Empty /\ Less(r.name, r.token) THEN r.token ELSE r.name
        indexStart == lowerBound(names, nameStart)
        prefixLimit == IF prefixSuccessor(r.name) = Empty THEN Len(names) + 1
                       ELSE lowerBound(names, prefixSuccessor(r.name))
        indexLimit == IF indexStart + maxResults < prefixLimit THEN indexStart + maxResults
                      ELSE prefixLimit
        page == SubSeq(b.objects, indexStart, indexLimit - 1)
        single == SelectSeq(page, LAMBDA o : ~OnlyRun(b, r, o.name))
        deep == SelectSeq(Names(page), LAMBDA n : Deep(r, n))
        last == names[indexLimit - 1]
    IN  [bkt |-> b,
         ans |-> [NoAnswer EXCEPT
                     !.err = "ok",
                     !.objs = [i \in DOMAIN single |-> [name |-> single[i].name,
                                                        updated |-> single[i].updated]],
                     !.runs = SortedNames(SetToSeq({Run(r, n) : n \in ToSet(deep)})),
                     !.token = IF indexLimit >= prefixLimit THEN Empty
                               ELSE PageToken(b, r, last, names[indexLimit])]]

\* CreateObjectChunkWriter and CreateAppendableObjectWriter make a writer, Write
\* checks the preconditions early, and Flush and Close create the object.
NewFakeObjectWriter(b, r) ==
    IF checkName(r.name) THEN Done(b, Nothing) ELSE Failed(b, "invalid")
CreateAppendableObjectWriter(b, r) ==
    IF Has(b, r.name) /\ Get(b, r.name).gen = 0 THEN Failed(b, "invalid") ELSE NewFakeObjectWriter(b, r)
WriterWrite(b, r) ==
    IF preconditionChecks(b, r) = "ok" THEN Done(b, Nothing)
    ELSE Failed(b, preconditionChecks(b, r))
WriterClose(b, r) ==
    IF preconditionChecks(b, r) = "ok" THEN createOrUpdateFakeObject(b, r, r.data)
    ELSE Failed(b, preconditionChecks(b, r))

\* The bucket and the answer after a request.
Apply(b, r) ==
    CASE r.op = "NewReader" -> newReaderLocked(b, r)
      [] r.op = "Create" -> createObjectLocked(b, r, r.data)
      [] r.op = "ChunkWriter" -> NewFakeObjectWriter(b, r)
      [] r.op = "AppendableWriter" -> CreateAppendableObjectWriter(b, r)
      [] r.op = "Write" -> WriterWrite(b, r)
      [] r.op \in {"Finalize", "Flush"} -> WriterClose(b, r)
      [] r.op = "Copy" -> CopyObject(b, r)
      [] r.op = "Compose" -> ComposeObjects(b, r)
      [] r.op = "Stat" -> StatObject(b, r)
      [] r.op = "List" -> ListObjects(b, r)
      [] r.op = "Update" -> UpdateObject(b, r)
      [] r.op = "Delete" -> DeleteObject(b, r)
      [] r.op = "Move" -> MoveObject(b, r)
      [] r.op = "DeleteFolder" -> DeleteFolder(b, r)
      [] r.op = "GetFolder" -> GetFolder(b, r)
      [] r.op = "CreateFolder" -> CreateFolder(b, r)
      [] r.op = "RenameFolder" -> RenameFolder(b, r)
      [] r.op = "MRD" -> NewMultiRangeDownloader(b, r)

\* The requests that touch objects and folders without holding mu throughout: these
\* methods never take it, and what creates an object on a zonal bucket lets go of it
\* to read the object that is there.
Unlocked(b, r) ==
    /\ b.fake
    /\ \/ r.op \in {"Move", "RenameFolder", "MRD", "AppendableWriter"}
       \/ b.zonal /\ r.op \in {"Create", "Compose", "Finalize", "Flush"}

\* checkInvariants: names strictly increasing, generations bounded.
checkInvariants(b) ==
    /\ \A i \in 1..(Len(b.objects) - 1) : Less(b.objects[i].name, b.objects[i + 1].name)
    /\ \A i \in DOMAIN b.objects : b.objects[i].gen <= b.prevGeneration
=============================================================================
