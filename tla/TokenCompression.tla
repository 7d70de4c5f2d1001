-------------------------- MODULE TokenCompression --------------------------
(***************************************************************************)
(* Compression of tool output (crates/rtk/src/lib.rs).  A text is a         *)
(* sequence of lines [k, len, file, depth]: what the line starts with or    *)
(* contains, its length in bytes with the line end, the file a grep line    *)
(* names, the depth of a path or a tree entry.  A line the filters write    *)
(* themselves has k = "note" and says in depth how many lines it replaces.  *)
(***************************************************************************)
EXTENDS Integers, Sequences, FiniteSets, SequencesExt

PEEK_BYTES == 1024
NoteLen == 36
Line(k, len, file, depth) == [k |-> k, len |-> len, file |-> file, depth |-> depth]
Note(n) == Line("note", NoteLen, "", n)

Bytes(ls) == FoldLeft(LAMBDA a, l : a + l.len, 0, ls)
Peek(ls) == SelectSeq([i \in DOMAIN ls |-> [line |-> ls[i], at |-> Bytes(SubSeq(ls, 1, i - 1))]],
                      LAMBDA x : x.at < PEEK_BYTES)
Among(p, n, ks) == \E i \in DOMAIN p : i <= n /\ p[i].line.k \in ks

has_repetitive_blocks(p) ==
    /\ Len(p) >= 10
    /\ Cardinality({i \in 2..Len(p) : p[i].line = p[i - 1].line}) > Len(p) \div 4

\* The first test that the peek passes.
detect_filter(ls) ==
    LET p == Peek(ls)
        has(ks) == Among(p, Len(p), ks)
    IN  CASE p[1].line.k = "diff_header" \/ (has({"hunk"}) /\ has({"plus_file"})) -> "git_diff"
          [] p[1].line.k = "on_branch" \/ has({"not_staged"}) -> "git_status"
          [] has({"compiling", "error"}) -> "build_output"
          [] Among(p, 5, {"numbered_one"}) -> "read_numbered"
          [] Among(p, 5, {"match"}) -> "grep"
          [] p[1].line.k = "dot_path" \/ (\A i \in DOMAIN p : i <= 10 => p[i].line.k \in {"dot_path", "path"}) -> "find"
          [] has({"tree"}) -> "tree"
          [] Among(p, 5, {"ls"}) -> "ls"
          [] Len(p) > 50 /\ has_repetitive_blocks(p) -> "dedup_log"
          [] Len(ls) >= 60 -> "smart_truncate"
          [] OTHER -> "none"

-----------------------------------------------------------------------------
\* The filters

Flush(n) == IF n > 0 THEN <<Note(n)>> ELSE <<>>

\* The second of two context lines and every further one is skipped; only a changed line
\* (or the end) writes the note.
Changed == {"diff_header", "plus_file", "hunk", "change"}
compress_git_diff(ls) ==
    LET Step(st, l) ==
            CASE l.k \in Changed -> [out |-> st.out \o Flush(st.skipped) \o <<l>>, context |-> FALSE, skipped |-> 0]
              [] l.k = "context" /\ ~st.context -> [st EXCEPT !.out = Append(@, l), !.context = TRUE]
              [] l.k = "context" /\ st.context -> [st EXCEPT !.skipped = @ + 1]
              [] OTHER -> [st EXCEPT !.out = Append(@, l), !.context = FALSE]
        end == FoldLeft(Step, [out |-> <<>>, context |-> FALSE, skipped |-> 0], ls)
    IN  end.out \o Flush(end.skipped)

\* Five untracked files are listed, the rest counted.
Beyond5(n) == Flush(n - 5)
compress_git_status(ls) ==
    LET Leave(st, l) == IF st.inside /\ l.k # "context"
                        THEN [out |-> st.out \o Beyond5(st.count), inside |-> FALSE, count |-> 0] ELSE st
        Keep(st, l) == [out |-> Append(st.out, l), inside |-> st.inside \/ l.k = "untracked_header",
                        count |-> IF l.k = "untracked_header" THEN 0 ELSE st.count]
        Step(st, l) ==
            IF st.inside /\ l.k = "tabbed"
            THEN [st EXCEPT !.count = @ + 1, !.out = IF st.count < 5 THEN Append(@, l) ELSE @]
            ELSE Keep(Leave(st, l), l)
        end == FoldLeft(Step, [out |-> <<>>, inside |-> FALSE, count |-> 0], ls)
    IN  end.out \o (IF end.inside THEN Beyond5(end.count) ELSE <<>>)

\* Five matches of a file are kept.
compress_grep(ls) ==
    LET Enter(st, l) == IF l.file # st.file
                        THEN [out |-> st.out \o Flush(st.skipped), file |-> l.file, kept |-> 0, skipped |-> 0] ELSE st
        Take(st, l) == IF st.kept < 5 THEN [st EXCEPT !.out = Append(@, l), !.kept = @ + 1]
                       ELSE [st EXCEPT !.skipped = @ + 1]
        end == FoldLeft(LAMBDA st, l : Take(Enter(st, l), l), [out |-> <<>>, file |-> "", kept |-> 0, skipped |-> 0], ls)
    IN  end.out \o Flush(end.skipped)

\* find and tree: what lies too deep is counted until the next line that is kept.
Prune(ls, Keep(_)) ==
    LET Step(st, l) == IF Keep(l) THEN [out |-> st.out \o Flush(st.skipped) \o <<l>>, skipped |-> 0]
                       ELSE [st EXCEPT !.skipped = @ + 1]
        end == FoldLeft(Step, [out |-> <<>>, skipped |-> 0], ls)
    IN  end.out \o Flush(end.skipped)
compress_find(ls) == Prune(ls, LAMBDA l : l.depth <= 3)
compress_tree(ls) == Prune(ls, LAMBDA l : l.depth <= 4 \/ l.k = "tree_total")

\* The head and the tail of a long text around a note.
HeadTail(ls, limit, head, tail) ==
    IF Len(ls) <= limit THEN ls
    ELSE SubSeq(ls, 1, head) \o <<Note(Len(ls) - head - tail)>> \o SubSeq(ls, Len(ls) - tail + 1, Len(ls))
compress_ls(ls) == HeadTail(ls, 25, 20, 0)
compress_smart_truncate(ls) == HeadTail(ls, 60, 30, 20)
compress_read_numbered(ls) == HeadTail(ls, 30, 10, 10)
compress_search_list(ls) == HeadTail(ls, 15, 12, 0)

\* Up to two repetitions are written out again; more become a note.
Repeats(l, n) == IF n > 2 THEN <<Note(n)>> ELSE [i \in 1..n |-> l]
\* The repetitions at the end of the log are forgotten.
compress_dedup_logMutant(ls) ==
    LET Step(st, l) == IF l = st.last THEN [st EXCEPT !.count = @ + 1]
                       ELSE [out |-> st.out \o Repeats(st.last, st.count) \o <<l>>, last |-> l, count |-> 0]
    IN  FoldLeft(Step, [out |-> <<>>, last |-> Line("empty", 1, "", 0), count |-> 0], ls).out

compress_dedup_log(ls) ==
    LET Step(st, l) == IF l = st.last THEN [st EXCEPT !.count = @ + 1]
                       ELSE [out |-> st.out \o Repeats(st.last, st.count) \o <<l>>, last |-> l, count |-> 0]
        end == FoldLeft(Step, [out |-> <<>>, last |-> Line("empty", 1, "", 0), count |-> 0], ls)
    IN  end.out \o Repeats(end.last, end.count)

\* Up to three compilation lines become as many placeholders, more a note; at the end of
\* the text up to three leave no trace.
Placeholders(n) == IF n > 3 THEN <<Note(n)>> ELSE [i \in 1..n |-> [Note(1) EXCEPT !.len = 17]]
compress_build_output(ls) ==
    LET Step(st, l) == IF l.k = "compiling" THEN [st EXCEPT !.count = @ + 1]
                       ELSE [out |-> st.out \o Placeholders(st.count) \o <<l>>, count |-> 0]
        end == FoldLeft(Step, [out |-> <<>>, count |-> 0], ls)
    IN  end.out \o (IF end.count > 3 THEN <<Note(end.count)>> ELSE <<>>)

apply_filter(filter, ls) ==
    CASE filter = "git_diff" -> compress_git_diff(ls)
      [] filter = "git_status" -> compress_git_status(ls)
      [] filter = "grep" -> compress_grep(ls)
      [] filter = "find" -> compress_find(ls)
      [] filter = "ls" -> compress_ls(ls)
      [] filter = "tree" -> compress_tree(ls)
      [] filter = "dedup_log" -> compress_dedup_log(ls)
      [] filter = "smart_truncate" -> compress_smart_truncate(ls)
      [] filter = "read_numbered" -> compress_read_numbered(ls)
      [] filter = "search_list" -> compress_search_list(ls)
      [] filter = "build_output" -> compress_build_output(ls)

-----------------------------------------------------------------------------
\* compress: short texts, and results that are empty or save less than a twentieth, are left.
compress(ls) ==
    LET filter == detect_filter(ls)
        out == apply_filter(filter, ls)
    IN  IF Bytes(ls) < 256 \/ filter = "none" THEN ls
        ELSE IF out = <<>> \/ Bytes(out) >= Bytes(ls) \/ 100 * Bytes(out) > 95 * Bytes(ls) THEN ls
        ELSE out

\* compress_tool_results: the text, or every text block, of the messages of role "tool".
CompressBlock(b) == IF b.type = "text" /\ Bytes(compress(b.lines)) < Bytes(b.lines)
                    THEN [b EXCEPT !.lines = compress(b.lines)] ELSE b
compress_tool_results(messages) ==
    [i \in DOMAIN messages |->
        IF messages[i].role = "tool"
        THEN [messages[i] EXCEPT !.blocks = [j \in DOMAIN @ |-> CompressBlock(@[j])]] ELSE messages[i]]

-----------------------------------------------------------------------------
\* Properties

Stands(l) == IF l.k = "note" THEN l.depth ELSE 1
Kept(out) == SelectSeq(out, LAMBDA l : l.k # "note")
\* Compilation lines at the very end, of which up to three are dropped without a trace.
Trailing(ls) == Len(ls) - FoldLeft(LAMBDA a, i : IF ls[i].k # "compiling" THEN i ELSE a, 0, [i \in DOMAIN ls |-> i])

IsSubSeqOf(s, t) ==
    FoldLeft(LAMBDA n, l : IF n < Len(s) /\ s[n + 1] = l THEN n + 1 ELSE n, 0, t) = Len(s)

\* A compressed text is never empty and never longer, its lines are lines of the original
\* in their order, and every line that is missing is counted in a note; the one exception
\* is up to three compilation lines at the end of a build log (rtk lib.rs, compress).
NothingVanishes(ls) ==
    \A out \in {compress(ls)} :
    LET lost == IF out # ls /\ detect_filter(ls) = "build_output" /\ Trailing(ls) <= 3 THEN Trailing(ls) ELSE 0
    IN  /\ out # <<>> /\ Bytes(out) <= Bytes(ls)
        /\ IsSubSeqOf(Kept(out), ls)
        /\ FoldLeft(LAMBDA a, l : a + Stands(l), 0, out) + lost = Len(ls)
=============================================================================
