-------------------------- MODULE MCDatasetWriting ---------------------------
(***************************************************************************)
(* Bounded instance of DatasetWriting and CompositeReading: up to three    *)
(* sources, five keys.                                                     *)
(***************************************************************************)
EXTENDS CompositeReading

Open(mode, roles, remote) == [mode |-> mode, roles |-> roles, remote |-> remote]

Key(name, level, text) == [name |-> name, level |-> level, text |-> text]
Asset(key, type) == [key |-> key, type |-> type]

\* A single source, a pyramid in and out of the order of its levels with some or
\* all files remote, and the same over streams; two sources for one level; two
\* base sources; a stream with two roles.
MCOpenings ==
  {Open("paths", <<<<0>>>>, {1}),
   Open("paths", <<<<0>>, <<2>>, <<1, -1>>>>, {1, 3}),
   Open("paths", <<<<1>>, <<0>>>>, {1}),
   Open("paths", <<<<0>>, <<1>>, <<1>>>>, {2}),
   Open("paths", <<<<0>>, <<0>>>>, {}),
   Open("streams", <<<<-1>>, <<1>>, <<2>>>>, {}),
   Open("streams", <<<<0, 1>>>>, {})}

\* One source with two roles, which may be opened by path.
MCReuse == {Open("paths", <<<<1>>, <<2>>>>, {1, 2})}

MCPyramid == {Open("paths", <<<<0>>, <<1>>>>, {1, 2})}

\* A base image, its overview under two texts of one level, an overview of
\* another level, a text asset that looks like an overview.
MCAssets ==
  {Asset(Key("image:0", 0, ""), "rgb"),
   Asset(Key("image:0", 1, "1"), "rgb"),
   Asset(Key("image:0", 1, "01"), "elevation"),
   Asset(Key("image:0", 2, "2"), "elevation"),
   Asset(Key("text:0", 1, "1"), "text")}
=============================================================================
