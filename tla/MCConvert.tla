------------------------------ MODULE MCConvert ------------------------------
(* Imports, exports, copies and merges of a few small files, by one thread    *)
(* and by two.                                                                *)
EXTENDS Convert

P(name, n, ext) == [dir |-> "d", stem |-> <<name, n>>, ext |-> ext]
MCFiles ==
  [p \in {P("run", 2, "parquet"), P("run", 10, "parquet"), P("run", 3, "cstore"),
          P("old", 1, "cstore"), P("all", 0, "cstore")} |->
     CASE p.stem[2] = 2  -> File(<<1, 2>>, {"a", "b"})
       [] p.stem[2] = 10 -> File(<<3>>, {"a", "b"})
       [] p.stem[2] = 3  -> File(<<4, 5>>, {"a", "b"})
       [] p.stem[2] = 1  -> File(<<6>>, {"a"})
       [] p.stem[2] = 0  -> File(<<7>>, {"a"})]

One(p) == [pattern |-> None, path |-> p]
Glob(name, ext) == [pattern |-> [dir |-> "d", name |-> name, ext |-> ext], path |-> None]
Template(dir, name, field, ext) == [dir |-> dir, name |-> name, field |-> field, ext |-> ext]
NoRename == [s \in {} |-> s]

Call == [source |-> << Glob("run", "parquet") >>, literal |-> None, dest |-> None, format |-> None,
         rename |-> NoRename, outdir |-> None, columns |-> None, dtypes |-> FALSE, batches |-> FALSE,
         overwrite |-> FALSE, mismatch |-> "strict", workers |-> 2, cli |-> FALSE, dry |-> FALSE]
Natives == << One(P("run", 3, "cstore")), One(P("old", 1, "cstore")) >>
Mixed == << One(P("old", 1, "cstore")), One(P("run", 2, "parquet")), One(P("old", 1, "cstore")) >>
Twice == << One(P("run", 3, "cstore")), One(P("run", 3, "cstore")) >>

MCCalls ==
  { [Call EXCEPT !.literal = P("new", 0, "cstore"), !.batches = TRUE],
    [Call EXCEPT !.literal = P("all", 0, "cstore"), !.source = Mixed, !.overwrite = TRUE,
                 !.mismatch = "drop", !.workers = Automatic],
    [Call EXCEPT !.literal = P("all", 0, "cstore"), !.source = Mixed, !.overwrite = TRUE, !.workers = None],
    [Call EXCEPT !.literal = P("new", 0, "parquet"), !.source = Mixed, !.columns = {"a"}],
    [Call EXCEPT !.literal = P("all", 0, "cstore")],
    [Call EXCEPT !.literal = P("new", 0, "feather")],
    [Call EXCEPT !.literal = P("new", 1, "cstore"), !.source = << One(P("old", 1, "cstore")) >>, !.columns = {"a"}],
    [Call EXCEPT !.batches = TRUE, !.cli = TRUE, !.workers = Automatic],
    [Call EXCEPT !.batches = TRUE, !.workers = None, !.overwrite = TRUE],
    [Call EXCEPT !.rename = [s \in {<<"run", 10>>} |-> <<"run", 3>>]],
    [Call EXCEPT !.rename = [s \in {<<"run", 10>>} |-> <<"run", 2>>]],
    [Call EXCEPT !.source = Natives, !.dest = Template("e", "out", "index", "feather"), !.batches = TRUE],
    [Call EXCEPT !.source = Natives, !.dest = Template("d", "out", "stem", "npz"), !.outdir = "e"],
    [Call EXCEPT !.source = Twice, !.literal = P("new", 0, "hdf5"), !.batches = TRUE],
    [Call EXCEPT !.source = << One(P("run", 3, "cstore")) >>, !.format = "hdf5", !.workers = None],
    [Call EXCEPT !.source = Natives, !.format = "parquet", !.outdir = "e", !.columns = {"a", "b"}],
    [Call EXCEPT !.source = Natives, !.format = "parquet", !.outdir = "e", !.dtypes = TRUE],
    [Call EXCEPT !.source = Natives],
    [Call EXCEPT !.source = Natives, !.dest = Template("d", "out", "other", "feather")],
    [Call EXCEPT !.source = << Glob("none", "parquet") >>],
    [Call EXCEPT !.cli = TRUE, !.dry = TRUE],
    [Call EXCEPT !.workers = 0] }

\* Two stores that trade their names.
MCOverlapping ==
  { [Call EXCEPT !.source = Natives, !.format = "cstore", !.overwrite = TRUE, !.workers = None,
                 !.rename = [s \in {<<"run", 3>>, <<"old", 1>>} |->
                               IF s = <<"run", 3>> THEN <<"old", 1>> ELSE <<"run", 3>>]] }
==============================================================================
