----------------------------- MODULE MCChunking -----------------------------
(* Blocks that fit, that split at sentences, clauses, words, lines and within a word or *)
(* a line, and one whose wrapper leaves no room.                                        *)
EXTENDS Chunking
Prose(size, s, clauses, words) ==
    [kind |-> "text", size |-> size, wrapper |-> 0,
     sentences |-> s, clauses |-> clauses, words |-> words]
Wrapped(kind, size, wrapper, lines) ==
    [kind |-> kind, size |-> size, wrapper |-> wrapper,
     sentences |-> {}, clauses |-> {}, words |-> lines]
MCBlocks ==
    {Prose(2, {1, 2}, {1, 2}, {1, 2}), Prose(4, {1, 4}, {1, 4}, {1, 2, 3, 4}),
     Prose(16, {3, 10, 16}, {3, 5, 10, 16}, {2, 3, 4, 5, 6, 8, 10, 15, 16}),
     Wrapped("code", 3, 1, {1, 3}), Wrapped("code", 11, 2, {1, 2, 9, 11}),
     Wrapped("table", 6, 2, {2, 4, 6}), Wrapped("table", 1, 6, {1})}
MCHeadings == {[level |-> l, name |-> n] : l \in 1..3, n \in {"a"}} \cup {[level |-> 2, name |-> "b"]}
=============================================================================
