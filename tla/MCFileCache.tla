---------------------------- MODULE MCFileCache ----------------------------
EXTENDS FileCache

MCNames == {"a", "b"}

Plain ==
  [sparse |-> FALSE, parallel |-> FALSE, defaultOn |-> FALSE, direct |-> FALSE, rangeRead |-> FALSE,
   crc |-> FALSE, damage |-> FALSE, append |-> FALSE, faults |-> FALSE, unmount |-> FALSE,
   invalidate |-> FALSE, reopen |-> FALSE, calls |-> 3,
   exclude |-> {}, include |-> MCNames, chunk |-> 1, sequential |-> 2, max |-> 2, sizes |-> [a |-> <<2>>, b |-> <<1>>],
   opened |-> <<"a", "b">>, reads |-> {<<0, 1>>, <<1, 2>>}]

\* Evictions; invalidations by writers; a new generation; a growing object; the
\* three ways to download; damaged transfers; failing calls; unmount.
Evicting == [Plain EXCEPT !.max = 1, !.sizes = [a |-> <<1>>, b |-> <<1>>], !.reads = {<<0, 1>>}]
Invalidating == [Plain EXCEPT !.invalidate = TRUE, !.rangeRead = TRUE, !.opened = <<"a", "a">>]
Replaced == [Plain EXCEPT !.reopen = TRUE, !.opened = <<"a", "a">>, !.sizes = [a |-> <<1, 1>>, b |-> <<1>>], !.reads = {<<0, 1>>}]
Growing == [Replaced EXCEPT !.append = TRUE, !.calls = 2, !.sizes = [a |-> <<1, 2>>, b |-> <<1>>], !.reads = {<<0, 1>>, <<1, 2>>, <<0, 2>>}]
Parallel == [Plain EXCEPT !.parallel = TRUE, !.direct = TRUE, !.calls = 2, !.invalidate = TRUE, !.max = 3,
                          !.sizes = [a |-> <<3>>, b |-> <<1>>], !.reads = {<<0, 1>>, <<1, 3>>}]
ParallelChunks == [Parallel EXCEPT !.defaultOn = TRUE, !.direct = FALSE, !.invalidate = FALSE, !.opened = <<"a", "a">>, !.chunk = 2]
Checked == [Plain EXCEPT !.crc = TRUE, !.damage = TRUE, !.reopen = TRUE, !.opened = <<"a", "a">>, !.sizes = [a |-> <<1, 1>>, b |-> <<1>>],
                         !.reads = {<<0, 1>>}]
Failing == [Plain EXCEPT !.faults = TRUE, !.calls = 2]
Sparse == [Plain EXCEPT !.sparse = TRUE, !.invalidate = TRUE, !.chunk = 2, !.sizes = [a |-> <<3>>, b |-> <<1>>],
                        !.reads = {<<0, 1>>, <<1, 3>>}]
Unmounting == [Plain EXCEPT !.unmount = TRUE, !.exclude = {"b"}, !.calls = 2]
Including == [Unmounting EXCEPT !.exclude = {}, !.include = {"b"}]

MCKinds == {Evicting, Invalidating, Replaced, Growing, Parallel, ParallelChunks, Checked, Failing, Sparse, Unmounting, Including}

SparseReplaced == [Sparse EXCEPT !.opened = <<"a", "a">>, !.reopen = TRUE, !.sizes = [a |-> <<2, 2>>, b |-> <<1>>], !.reads = {<<0, 1>>}]
SparseKinds == {SparseReplaced}
=============================================================================
