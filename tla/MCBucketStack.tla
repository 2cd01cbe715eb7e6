---------------------------- MODULE MCBucketStack ---------------------------
(* Small mounts: see README.md for what each one is for.                     *)
EXTENDS BucketStack

Obj(n, g, when) == [name |-> n, gen |-> g, meta |-> 1, data |-> <<g>>, components |-> 1,
                    updated |-> when]
Req(o, n) == [NoRequest EXCEPT !.op = o, !.name = n]
To(o, n, d) == [NoRequest EXCEPT !.op = o, !.name = n, !.dst = d]
Src(n, g) == [name |-> n, gen |-> g]

A == <<2>>
B == <<3>>
C == <<4>>
AB == <<2, 3>>
AC == <<2, 4>>
AD == <<2, 0>>
BA == <<3, 2>>

Plain == [callers |-> {"p"}, fake |-> TRUE, hns |-> FALSE, zonal |-> FALSE,
          objects |-> <<Obj(A, 1, "old"), Obj(B, 2, "old")>>, folders |-> <<>>,
          prefix |-> Empty, dummy |-> FALSE, trace |-> FALSE, rate |-> 0, window |-> 2,
          reqs |-> {}, ls |-> NoRequest, tmp |-> Empty, calls |-> 1, faults |-> 0, ticks |-> 0]

Writes(m, n, k) ==
    { [Req("Create", m) EXCEPT !.gen = 0, !.data = <<5>>],
      [Req("Create", m) EXCEPT !.gen = Seen, !.meta = Seen, !.data = <<5>>],
      [Req("Create", n) EXCEPT !.gen = 0, !.corrupt = TRUE, !.data = <<5>>],
      [Req("Create", m) EXCEPT !.data = <<6>>],
      [Req("Update", m) EXCEPT !.gen = Seen, !.meta = Seen], [Req("Update", n) EXCEPT !.gen = Seen],
      [Req("Delete", m) EXCEPT !.gen = Seen, !.meta = Seen], [Req("Delete", n) EXCEPT !.gen = 0],
      [To("Copy", m, n) EXCEPT !.gen = Seen], [To("Move", m, k) EXCEPT !.gen = Seen, !.meta = Seen],
      [To("Compose", Empty, m) EXCEPT !.gen = Seen, !.data = <<>>, !.srcs = <<Src(m, 0), Src(n, 0)>>] }
Reads(m) ==
    { Req("Stat", m), [Req("NewReader", m) EXCEPT !.gen = 0, !.lo = 0, !.hi = 2],
      [Req("MRD", m) EXCEPT !.gen = Seen] }

Tree == <<Obj(AB, 1, "old"), Obj(AC, 2, "old"), Obj(B, 3, "old"), Obj(BA, 4, "old")>>
ByPages(n) == [Req("List", Empty) EXCEPT !.max = n, !.delim = TRUE]

Racing == [Plain EXCEPT !.callers = {"p", "q"}, !.reqs = Writes(A, B, C) \cup Reads(A)]
Listed == [Plain EXCEPT !.objects = Tree, !.reqs = Writes(AC, B, AB), !.calls = 2, !.ls = ByPages(1)]
ListedWhole == [Listed EXCEPT !.fake = FALSE, !.ls = [ByPages(0) EXCEPT !.delim = FALSE], !.faults = 1,
                              !.calls = 1]
Trailing == [Listed EXCEPT !.calls = 1, !.objects = <<Obj(AD, 1, "old"), Obj(AB, 2, "old"), Obj(B, 3, "old")>>,
                           !.ls = [ByPages(2) EXCEPT !.trailing = TRUE]]
OnlyDir == [Listed EXCEPT !.calls = 1, !.prefix = AD,
               !.objects = <<Obj(AB, 1, "old"), Obj(AC, 2, "old"), Obj(<<2, 5, 3>>, 3, "old"), Obj(B, 4, "old")>>,
               !.reqs = Writes(B, C, A) \cup Reads(B), !.trace = TRUE]
Folders == [Plain EXCEPT !.hns = TRUE, !.calls = 3,
               !.objects = <<Obj(AB, 1, "old")>>, !.folders = <<AD>>, !.ls = ByPages(2),
               !.reqs = { Req("CreateFolder", <<3, 0>>), Req("GetFolder", AD), Req("DeleteFolder", AD),
                          Req("DeleteFolder", <<3, 0>>), To("RenameFolder", AD, <<4, 0>>),
                          To("RenameFolder", <<4, 0>>, AD), Req("Delete", AB),
                          [Req("Create", <<3, 2, 4>>) EXCEPT !.gen = 0], [Req("MRD", AD) EXCEPT !.gen = 0]}]
OnlyFolder == [Folders EXCEPT !.prefix = AD, !.calls = 2, !.ls = NoRequest,
               !.reqs = { Req("CreateFolder", <<3, 0>>), Req("GetFolder", <<3, 0>>),
                          Req("DeleteFolder", <<3, 0>>), To("RenameFolder", <<3, 0>>, <<4, 0>>),
                          [Req("Create", <<3, 4>>) EXCEPT !.gen = 0], [Req("Create", C) EXCEPT !.gen = 0]}]
Uploads == [Plain EXCEPT !.callers = {"p", "q"}, !.trace = TRUE, !.prefix = AD, !.objects = <<Obj(AB, 1, "old")>>,
               !.reqs = { [Req("ChunkWriter", B) EXCEPT !.gen = Seen, !.meta = Seen],
                          [Req("ChunkWriter", C) EXCEPT !.gen = 0],
                          [Req("Delete", B) EXCEPT !.gen = 0], [Req("Update", B) EXCEPT !.gen = 0] }]
Appends == [Uploads EXCEPT !.callers = {"p"}, !.zonal = TRUE, !.calls = 2,
               !.reqs = { [Req("AppendableWriter", B) EXCEPT !.gen = Seen, !.lo = 1], Req("Stat", B) }]
TakesOver == [Appends EXCEPT !.fake = FALSE, !.faults = 1]
Lossy == [Plain EXCEPT !.callers = {"p", "q"}, !.fake = FALSE, !.faults = 1, !.objects = <<Obj(A, 1, "old")>>,
             !.reqs = { [Req("Create", A) EXCEPT !.gen = Seen, !.meta = Seen, !.data = <<5>>],
                        [Req("Create", B) EXCEPT !.gen = 0, !.data = <<5>>],
                        [Req("ChunkWriter", A) EXCEPT !.gen = Seen],
                        [Req("Update", A) EXCEPT !.gen = Seen, !.meta = Seen],
                        [Req("Delete", A) EXCEPT !.gen = Seen], [Req("Delete", B) EXCEPT !.gen = 0],
                        [To("Move", A, B) EXCEPT !.gen = Seen] }]
LossyAgain == [Lossy EXCEPT !.callers = {"p"}, !.calls = 2, !.faults = 2]
Limited == [Plain EXCEPT !.callers = {"p", "q"}, !.rate = 1, !.calls = 2, !.faults = 1, !.ticks = 3,
               !.reqs = { [Req("NewReader", A) EXCEPT !.gen = 0] },
               !.objects = <<[Obj(A, 1, "old") EXCEPT !.data = <<1>>]>>]
TooSlow == [Limited EXCEPT !.window = 1]
TooFast == [Limited EXCEPT !.rate = MaxCapacity * LimitN]
Dummy == [Plain EXCEPT !.dummy = TRUE, !.trace = TRUE, !.callers = {"p", "q"}, !.faults = 1,
             !.reqs = { [Req("NewReader", A) EXCEPT !.gen = 0, !.lo = 0, !.hi = 5], Req("NewReader", A),
                        [Req("NewReader", C) EXCEPT !.gen = 0, !.lo = 0, !.hi = 1] }]
Temps == [Plain EXCEPT !.fake = FALSE, !.tmp = AD, !.calls = 2,
             !.objects = <<Obj(AB, 1, "old"), Obj(AC, 2, "now"), Obj(<<2, 5>>, 3, "old"),
                           Obj(<<2, 7>>, 4, "old"), Obj(<<2, 8>>, 5, "old"), Obj(B, 6, "old")>>,
             !.reqs = { [Req("Create", <<2, 6>>) EXCEPT !.gen = 0], [Req("Delete", <<2, 6>>) EXCEPT !.gen = 0],
                        [Req("Delete", <<2, 5>>) EXCEPT !.gen = 0] }]
LossyTemps == [Temps EXCEPT !.calls = 1, !.faults = 1,
                  !.objects = <<Obj(AB, 1, "old"), Obj(AC, 2, "now"), Obj(<<2, 5>>, 3, "old")>>]
TempsInDir == [LossyTemps EXCEPT !.prefix = AD, !.tmp = <<5, 0>>,
                  !.objects = <<Obj(AB, 1, "old"), Obj(<<2, 5, 3>>, 2, "old"), Obj(<<2, 5, 4>>, 3, "now"),
                                Obj(<<5, 3>>, 4, "old")>>,
                  !.reqs = { [Req("Create", <<5, 6>>) EXCEPT !.gen = 0], [Req("Delete", B) EXCEPT !.gen = 0] }]

MCKinds == {Racing, Listed, ListedWhole, Trailing, OnlyDir, Folders, OnlyFolder, Uploads, Appends,
            TakesOver, Lossy, LossyAgain, Limited, TooSlow, TooFast, Dummy, Temps, LossyTemps, TempsInDir}
=============================================================================
