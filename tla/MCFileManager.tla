---------------------------- MODULE MCFileManager ----------------------------
(* FileManager on all short texts over a few characters, and on torrents   *)
(* with up to three files, good ones and ones with a fault.                *)
EXTENDS FileManager

MCCharacters ==
  <<"-", ".", "/", "0", "1", "2", "6", ":", "a", "d", "e", "files", "i", "info", "l",
    "length", "name", "path", "piece length", "pieces">>

MCTexts ==
  {[begin |-> << >>, characters |-> {"-", "0", "1", "6", "e", "i"}, length |-> 5],
   [begin |-> << >>, characters |-> {"-", "0", "1", "2", ":", "d", "e", "i", "l"}, length |-> 5],
   [begin |-> <<"d">>, characters |-> {"1", ":", "d", "e", "i"}, length |-> 8],
   [begin |-> <<"d", "0", ":">>, characters |-> {"0", ":", "d", "e"}, length |-> 10]}

Integer(n)  == <<"integer", n, 0, 0>>
String(s)   == <<"string", s, 0, 0>>
List(items) == <<"list", items, 0, 0>>
Dictionary(map) == <<"dictionary", map, 0, 0>>

Absent == <<"nothing">>
Field(key, d) == IF d = Absent THEN << >> ELSE <<key>> :> d

FileWith(length, path) == Dictionary(Field("length", length) @@ Field("path", path))

GoodPath == List(<<String(<<"a">>)>>)
FileOf(size) == FileWith(Integer(size), GoodPath)

\* No two hashes of a torrent are the same.
Hashes(n) == String([i \in 1..n |-> MCCharacters[i]])

InfoWith(name, pieces, piece_len, length, fs) ==
  Dictionary(<<"info">> :>
    Dictionary(Field("name", name) @@ Field("pieces", pieces) @@ Field("piece length", piece_len)
               @@ Field("length", length) @@ Field("files", fs)))

GoodName == String(<<"a">>)

\* One file or several, all sizes from 0 to 3 in any order, pieces of 1 to 3 bytes, with as
\* many hashes as needed and also with others.
PlainTorrents ==
  {InfoWith(GoodName, Hashes(h), Integer(l), Integer(n), Absent) :
     h \in {0, 2, 3, 4}, l \in 1..3, n \in 0..4}
  \cup
  {InfoWith(GoodName, Hashes(2 * ceil_div(FoldLeft(LAMBDA a, b : a + b, 0, sizes), l)),
            Integer(l), Absent, List([i \in DOMAIN sizes |-> FileOf(sizes[i])])) :
     l \in 1..3, sizes \in UNION {[1..k -> 0..3] : k \in 0..3}}

\* The fields of the information, each present, missing, of another type or out of range.
OddFields ==
  {InfoWith(name, pieces, l, n, fs) :
     name \in {Absent, Integer(1), GoodName, String(<<".", ".">>)},
     pieces \in {Absent, Integer(1), Hashes(2)},
     l \in {Absent, GoodName, Integer(-1), Integer(0), Integer(2)},
     n \in {Absent, GoodName, Integer(-1), Integer(2)},
     fs \in {Absent, Integer(1), List(<<FileOf(2)>>)}}

\* Files with a fault, behind one that has none, and behind two that are too large together.
OddFiles ==
  {InfoWith(GoodName, Hashes(2), Integer(2), Absent, List(<<FileOf(15), FileOf(1), f>>)) :
     f \in {Integer(1), FileWith(Integer(1), Absent)}}
  \cup
  {InfoWith(GoodName, Hashes(2), Integer(2), Absent, List(<<FileOf(1), f>>)) :
     f \in {Integer(1)} \cup
       {FileWith(n, path) :
          n \in {Absent, GoodName, Integer(-1), Integer(1), Integer(15)},
          path \in {Absent, Integer(1), GoodPath, List(<< >>), List(<<Integer(1)>>),
                     List(<<GoodName, String(<<"/">>)>>), List(<<GoodName, GoodName>>)}}}

MCTorrents ==
  PlainTorrents \cup OddFields \cup OddFiles \cup
    {Integer(1), Dictionary(<<"name">> :> GoodName), Dictionary(<<"info">> :> Integer(1))}

MCLinks == {<< <<"a">>, <<"a">> >>}
==============================================================================
