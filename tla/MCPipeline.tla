------------------------------ MODULE MCPipeline ------------------------------
(* Runs of aq on small inputs, for TLC: at most three files of at most two   *)
(* blocks of at most two records.                                            *)
EXTENDS Pipeline, TLC

Meta(name) == [name |-> name, schema |-> "ok", fields |-> "ok",
               setup |-> "ok", codec |-> "ok"]

Block(docs, sync) == [frame |-> "ok", sync |-> sync, data |-> "ok", docs |-> docs]

File(meta, sync, docss) ==
    [open |-> "ok", header |-> "ok", meta |-> meta, sync |-> sync,
     blocks |-> [i \in DOMAIN docss |-> Block(docss[i], sync)]]

Run(j, n, cnt, flt, fs) ==
    [jobs |-> j, limit |-> n, count |-> cnt, filter |-> flt, nested |-> FALSE, files |-> fs]

M == "match"
S == "skip"

\* Sound inputs: the header changes, stays, or stays with another marker; a
\* file without blocks; records that pass and records that do not.
SoundInputs ==
    { <<>>,
      << File(Meta("m1"), "s1", << <<M, S>>, <<M>> >>),
         File(Meta("m1"), "s2", << <<M>> >>) >>,
      << File(Meta("m1"), "s1", << <<M>> >>),
         File(Meta("m2"), "s1", << >>),
         File(Meta("m1"), "s2", << <<S, M>> >>) >> }

Modes == {<<FALSE, FALSE>>, <<FALSE, TRUE>>, <<TRUE, FALSE>>, <<TRUE, TRUE>>}

SoundRuns ==
    {Run(3, n, m[1], m[2], files) :
        n \in {-2, -1, 0, 1, 2}, m \in Modes, files \in SoundInputs}

\* --jobs below, at and between the bounds of main.
JobsRuns ==
    {Run(j, n, FALSE, TRUE, files) :
        j \in {0, 1, 2}, n \in {-1, 1}, files \in SoundInputs}

\* Two files of which the second is not as it should be, in each of the ways.
Good == File(Meta("m1"), "s1", << <<M>> >>)
Next1(meta) == File(meta, "s1", << <<M, M>>, <<M>> >>)
WithBlock(f, i, b) == [f EXCEPT !.blocks = [f.blocks EXCEPT ![i] = b]]

BadFiles ==
    { [Good EXCEPT !.open = "error"],
      [Good EXCEPT !.header = "error"],
      [Good EXCEPT !.header = "eof"] }
    \cup {Next1([Meta("m2") EXCEPT !.schema = "error"]),
          Next1([Meta("m2") EXCEPT !.fields = "error"])}
    \cup {Next1([Meta("m2") EXCEPT !.setup = o]) : o \in {"error", "abort"}}
    \cup {Next1([Meta("m2") EXCEPT !.codec = o]) : o \in {"error", "abort"}}
    \cup {WithBlock(Next1(Meta("m1")), 1, b) :
            b \in {[Block(<<M>>, "s1") EXCEPT !.frame = "error"],
                   [Block(<<M>>, "s1") EXCEPT !.frame = "eof"],
                   [Block(<<M>>, "s1") EXCEPT !.data = "error"],
                   Block(<<M>>, "s2"),
                   Block(<<M, "bad">>, "s1"),
                   Block(<<M, "eof", M>>, "s1")}}

FaultyRuns ==
    {Run(2, n, c, TRUE, <<Good, f>>) :
        n \in {-1, 2}, c \in BOOLEAN, f \in BadFiles}
    \cup {Run(2, n, FALSE, TRUE, <<f, Good>>) : n \in {-1, 2}, f \in BadFiles}

\* A filter with a record expression on a path that is a record.
NestedRuns ==
    {[Run(2, -1, FALSE, TRUE, <<Good>>) EXCEPT !.nested = TRUE]}

\* Sound or not, with a queue of one and two workers.
AllRuns == SoundRuns \cup JobsRuns \cup FaultyRuns

\* --count-only with a limit.
CountRuns == {r \in SoundRuns : r.limit = 1 /\ r.count}
===============================================================================
