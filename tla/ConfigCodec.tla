---------------------------- MODULE ConfigCodec ----------------------------
(***************************************************************************)
(* TfcConfigCodec: a text of nested sections <tag> ... </tag> that hold    *)
(* pairs key = value, sections and # comments; parsed into a tree, looked  *)
(* up and edited by path, and generated again.                             *)
(*                                                                         *)
(* A line is what is left of it after Trim: a sequence of words and of the *)
(* marks the parser looks for.  The std::list<Node> trees are numbered in  *)
(* order of creation, so the children of a node are in the order of their  *)
(* numbers; nodes[1] is RootNode.  An erased section has no parent.        *)
(***************************************************************************)
EXTENDS Integers, Sequences, SequencesExt

CONSTANTS
  Symbols,     \* the words and marks a line is made of
  Files,       \* the texts that are parsed: sequences of lines
  Paths,       \* section paths of the calls
  Keys,        \* keys and tags of the calls
  Values,      \* values of the calls
  Edited,      \* bound: the texts whose trees are edited
  MaxEdits     \* bound: editing calls after a parse

Root == 1
NoNode == 0

Words == Seq(Symbols)

ASSUME CodecAssumption ==
  /\ {"<", "/", ">", "=", "\\"} \subseteq Symbols
  /\ Files \subseteq Seq(Words) /\ Edited \subseteq Files
  /\ Paths \subseteq Words /\ Keys \subseteq Words /\ Values \subseteq Words
  /\ MaxEdits \in Nat

VARIABLES
  file,      \* the lines the istringstream still has
  nodes,     \* the tree
  open,      \* the nodes of the running calls of ParseImpl, innermost last
  stack,     \* CommentedNodeStack
  status,    \* "parsing", or what Parse returned
  last,      \* the last editing call, with what it returned
  edits,     \* editing calls so far
  saved      \* history: the tree Generate wrote out, once it was called

parseVars == <<file, open, stack, status>>
codecVars == <<file, nodes, open, stack, status, last, edits, saved>>

Node(tag, parent, level) ==
  [tag |-> tag, parent |-> parent, level |-> level,
   comments |-> <<>>, pairs |-> <<>>, raw |-> <<>>]

Pair(k, v) == [key |-> k, value |-> v, comments |-> <<>>]

(* What CommentedNodeStack points to: the last pair of a node, or the node *)
(* itself while it has none.                                               *)
LastIn(t, n) == [node |-> n, pair |-> Len(t[n].pairs)]

Fresh == <<Node(<<>>, NoNode, -1)>>

-----------------------------------------------------------------------------
(* Lookup.                                                                 *)

(* The first child of n with the tag, or nullptr. *)
ChildOf(t, n, tag) ==
  LET found == {i \in DOMAIN t : t[i].parent = n /\ t[i].tag = tag}
  IN  IF n = NoNode \/ found = {} THEN NoNode ELSE Min(found)

(* A symbol read by std::getline with the delimiter backslash. *)
SplitAt(parts, c) ==
  IF c = "\\" THEN Append(parts, <<>>) ELSE Append(Front(parts), Append(Last(parts), c))

(* SplitString at backslashes: std::getline drops an empty last part. *)
SplitString(s) ==
  LET split[i \in 0 .. Len(s)] == IF i = 0 THEN <<(<<>>)>> ELSE SplitAt(split[i - 1], s[i])
      parts == split[Len(s)]
  IN  IF Last(parts) = <<>> THEN Front(parts) ELSE parts

GetSectionPointer(t, path) ==
  LET tags == SplitString(path)
      at[i \in 0 .. Len(tags)] == IF i = 0 THEN Root ELSE ChildOf(t, at[i - 1], tags[i])
  IN  at[Len(tags)]

(* The first pair of node n with the key, or 0. *)
PairIn(t, n, key) == SelectInSeq(t[n].pairs, LAMBDA p : p.key = key)

HasSection(t, path) == GetSectionPointer(t, path) # NoNode

(* HasKV and GetKV use the section without testing it: these operators are *)
(* only meant for a section that is there.                                 *)
HasKV(t, path, key) == PairIn(t, GetSectionPointer(t, path), key) # 0

GetKV(t, path, key) ==
  LET n == GetSectionPointer(t, path)
      i == PairIn(t, n, key)
  IN  IF i = 0 THEN <<>> ELSE t[n].pairs[i].value

-----------------------------------------------------------------------------
(* ParseImpl, one line at a time.                                          *)

Reading == status = "parsing" /\ file # <<>>
Line == Head(file)

DetectLineType(line) ==
  IF line[1] = "<"
  THEN IF Last(line) # ">" THEN "ERROR"
       ELSE IF line[2] = "/" THEN "SECTION_END" ELSE "SECTION_BEGIN"
  ELSE IF Contains(line, "=") THEN "KVPAIR" ELSE "ERROR"

IsLine(type) ==
  /\ Reading
  /\ Line # <<>>
  /\ Line[1] # "#"
  /\ DetectLineType(Line) = type

ReadBlank ==
  /\ Reading
  /\ Line = <<>>
  /\ file' = Tail(file)
  /\ UNCHANGED <<nodes, open, stack, status, last, edits, saved>>

(* AddComment, to the node or pair on top of CommentedNodeStack. *)
ReadComment ==
  /\ Reading
  /\ Line # <<>>
  /\ Line[1] = "#"
  /\ file' = Tail(file)
  /\ IF stack = <<>>
     THEN /\ status' = "PARSE_FAIL_SECTION_TAG_NOT_MATCH"
          /\ UNCHANGED nodes
     ELSE LET at == Last(stack) IN
          /\ nodes' = IF at.pair = 0
                      THEN [nodes EXCEPT ![at.node].comments = Append(@, Line)]
                      ELSE [nodes EXCEPT ![at.node].pairs[at.pair].comments = Append(@, Line)]
          /\ UNCHANGED status
  /\ UNCHANGED <<open, stack, last, edits, saved>>

(* Mutant: the pair is not put on CommentedNodeStack. *)
ReadPairUnstacked ==
  /\ IsLine("KVPAIR")
  /\ file' = Tail(file)
  /\ LET at == SelectInSeq(Line, LAMBDA c : c = "=") IN
     nodes' = [nodes EXCEPT ![Last(open)].pairs =
                 Append(@, Pair(SubSeq(Line, 1, at - 1), SubSeq(Line, at + 1, Len(Line))))]
  /\ status' = IF stack = <<>> THEN "wild" ELSE status
  /\ UNCHANGED <<open, stack, last, edits, saved>>

(* A pair: it replaces the top of the stack.  In RootNode the stack is     *)
(* empty, and pop_back of an empty std::list is undefined.                 *)
ReadPair ==
  /\ IsLine("KVPAIR")
  /\ file' = Tail(file)
  /\ LET at == SelectInSeq(Line, LAMBDA c : c = "=") IN
     nodes' = [nodes EXCEPT ![Last(open)].pairs =
                 Append(@, Pair(SubSeq(Line, 1, at - 1), SubSeq(Line, at + 1, Len(Line))))]
  /\ IF stack = <<>>
     THEN status' = "wild" /\ UNCHANGED stack
     ELSE /\ stack' = Append(Front(stack), LastIn(nodes', Last(open)))
          /\ UNCHANGED status
  /\ UNCHANGED <<open, last, edits, saved>>

(* A section: a new child, and a call of ParseImpl for it. *)
ReadBegin ==
  /\ IsLine("SECTION_BEGIN")
  /\ file' = Tail(file)
  /\ nodes' = Append(nodes, Node(SubSeq(Line, 2, Len(Line) - 1), Last(open),
                                 nodes[Last(open)].level + 1))
  /\ open' = Append(open, Len(nodes) + 1)
  /\ stack' = Append(stack, [node |-> Len(nodes) + 1, pair |-> 0])
  /\ UNCHANGED <<status, last, edits, saved>>

(* The end of the innermost section.  The tag of RootNode is empty: </> at *)
(* the top level matches it, and pops an empty stack.                      *)
ReadEnd ==
  /\ IsLine("SECTION_END")
  /\ file' = Tail(file)
  /\ IF SubSeq(Line, 3, Len(Line) - 1) # nodes[Last(open)].tag
     THEN status' = "PARSE_FAIL_SECTION_TAG_NOT_MATCH" /\ UNCHANGED <<open, stack>>
     ELSE IF stack = <<>>
     THEN status' = "wild" /\ UNCHANGED <<open, stack>>
     ELSE /\ open' = Front(open)
          /\ stack' = Front(stack)
          /\ UNCHANGED status
  /\ UNCHANGED <<nodes, last, edits, saved>>

ReadError ==
  /\ IsLine("ERROR")
  /\ file' = Tail(file)
  /\ status' = "PARSE_FAIL_LINE_TYPE_ERROR"
  /\ UNCHANGED <<nodes, open, stack, last, edits, saved>>

(* std::getline finds no more: every running ParseImpl returns, also those *)
(* whose section was not closed.                                           *)
ReadNothing ==
  /\ status = "parsing"
  /\ file = <<>>
  /\ status' = "SUCCESS"
  /\ UNCHANGED <<file, nodes, open, stack, last, edits, saved>>

ParseImpl ==
  \/ ReadBlank \/ ReadComment \/ ReadPair \/ ReadBegin
  \/ ReadEnd \/ ReadError \/ ReadNothing

Returned == status \notin {"parsing", "wild"}

-----------------------------------------------------------------------------
(* Generate: the children of RootNode, without the pairs and raw lines     *)
(* that RootNode itself may hold.                                          *)

(* Mutant: the comments of a pair are written in front of it. *)
PairLinesReversed(p) == p.comments \o <<p.key \o <<"=">> \o p.value>>

PairLines(p) == <<p.key \o <<"=">> \o p.value>> \o p.comments

(* The texts of the children of n, if text[i] is that of the node i. *)
ChildLines(t, text, n) ==
  FlattenSeq([i \in 1 .. Len(t) |-> IF t[i].parent = n THEN text[i] ELSE <<>>])

SectionLines(t, text, n) ==
  << <<"<">> \o t[n].tag \o <<">">> >>
  \o t[n].comments \o t[n].raw
  \o FlattenSeq([i \in 1 .. Len(t[n].pairs) |-> PairLines(t[n].pairs[i])])
  \o ChildLines(t, text, n)
  \o << <<"<", "/">> \o t[n].tag \o <<">">> >>

Generate(t) ==
  LET text[n \in 1 .. Len(t)] == SectionLines(t, text, n)
  IN  ChildLines(t, text, Root)

Children(t, n) ==
  FlattenSeq([i \in 1 .. Len(t) |-> IF t[i].parent = n THEN <<i>> ELSE <<>>])

(* What Generate writes, as a tree without the numbers of its nodes; a raw *)
(* line of the model is a pair without a value.                            *)
View(t) ==
  LET rawPairs(n) == [i \in DOMAIN t[n].raw |-> Pair(Front(t[n].raw[i]), <<>>)]
      view[n \in 1 .. Len(t)] ==
        LET kids == Children(t, n) IN
        [tag |-> t[n].tag, level |-> t[n].level, comments |-> t[n].comments,
         pairs |-> rawPairs(n) \o t[n].pairs,
         children |-> [i \in DOMAIN kids |-> view[kids[i]]]]
  IN  view[Root].children

(* The generated text is parsed by the same codec: ResetPImpl, ParseImpl.  *)
GenerateAndParse ==
  /\ Returned
  /\ ~saved.done
  /\ saved' = [done |-> TRUE, tree |-> nodes]
  /\ file' = Generate(nodes)
  /\ nodes' = Fresh
  /\ open' = <<Root>>
  /\ stack' = <<>>
  /\ status' = "parsing"
  /\ UNCHANGED <<last, edits>>

-----------------------------------------------------------------------------
(* The editing calls.                                                      *)

NoCall == [call |-> "none", path |-> <<>>, key |-> <<>>, value |-> <<>>, result |-> "none"]

(* A call with its result and the tree it leaves. *)
Call(name, path, key, value, result, tree) ==
  /\ Returned
  /\ ~saved.done
  /\ edits < MaxEdits
  /\ edits' = edits + 1
  /\ last' = [call |-> name, path |-> path, key |-> key, value |-> value, result |-> result]
  /\ nodes' = tree
  /\ status' = IF result = "crash" THEN "wild" ELSE status
  /\ UNCHANGED <<file, open, stack, saved>>

(* A call on a section, and one on a pair of it; Tree is what is done to   *)
(* the section n, or to its pair i.                                        *)
SectionCall(name, path, key, Tree(_)) ==
  LET n == GetSectionPointer(nodes, path) IN
  IF n = NoNode THEN Call(name, path, key, <<>>, "SECTION_NOT_FOUND", nodes)
  ELSE Call(name, path, key, <<>>, "SUCCESS", Tree(n))

PairCall(name, path, key, value, Tree(_, _)) ==
  LET n == GetSectionPointer(nodes, path)
      i == PairIn(nodes, n, key)
  IN  IF n = NoNode THEN Call(name, path, key, value, "SECTION_NOT_FOUND", nodes)
      ELSE IF i = 0 THEN Call(name, path, key, value, "KVPAIR_NOT_FOUND", nodes)
      ELSE Call(name, path, key, value, "SUCCESS", Tree(n, i))

ClearKVs(path) ==
  SectionCall("ClearKVs", path, <<>>, LAMBDA n : [nodes EXCEPT ![n].pairs = <<>>])

EraseKV(path, key) ==
  PairCall("EraseKV", path, key, <<>>,
           LAMBDA n, i : [nodes EXCEPT ![n].pairs = RemoveAt(@, i)])

(* Mutant: the first pair of the section is overwritten. *)
OverwriteFirst(path, key, value) ==
  PairCall("OverwriteKV", path, key, value,
           LAMBDA n, i : [nodes EXCEPT ![n].pairs[1].value = value])

OverwriteKV(path, key, value) ==
  PairCall("OverwriteKV", path, key, value,
           LAMBDA n, i : [nodes EXCEPT ![n].pairs[i].value = value])

InsertKV(path, key, value) ==
  LET n == GetSectionPointer(nodes, path) IN
  IF n = NoNode THEN Call("InsertKV", path, key, value, "SECTION_NOT_FOUND", nodes)
  ELSE IF PairIn(nodes, n, key) # 0
  THEN Call("InsertKV", path, key, value, "KVPAIR_DUPLICATED", nodes)
  ELSE Call("InsertKV", path, key, value, "SUCCESS",
            [nodes EXCEPT ![n].pairs = Append(@, Pair(key, value))])

(* A raw line is any line: here a pair without a value. *)
InsertRawLine(path, key) ==
  SectionCall("InsertRawLine", path, key,
              LAMBDA n : [nodes EXCEPT ![n].raw = Append(@, key \o <<"=">>)])

ClearRawLines(path) ==
  SectionCall("ClearRawLines", path, <<>>, LAMBDA n : [nodes EXCEPT ![n].raw = <<>>])

(* An erased section keeps its number and is a child of nobody. *)
Without(t, gone) ==
  [i \in DOMAIN t |-> IF i \in gone THEN [t[i] EXCEPT !.parent = NoNode] ELSE t[i]]

ClearSections(path) ==
  SectionCall("ClearSections", path, <<>>,
              LAMBDA n : Without(nodes, {i \in DOMAIN nodes : nodes[i].parent = n}))

EraseSection(path, tag) ==
  LET n == GetSectionPointer(nodes, path)
      c == ChildOf(nodes, n, tag)
  IN  IF n = NoNode \/ c = NoNode
      THEN Call("EraseSection", path, tag, <<>>, "SECTION_NOT_FOUND", nodes)
      ELSE Call("EraseSection", path, tag, <<>>, "SUCCESS", Without(nodes, {c}))

(* Mutant: the search uses the tag alone, as if the parent were the root. *)
InsertSectionShort(path, tag) ==
  LET n == GetSectionPointer(nodes, path) IN
  IF HasSection(nodes, tag)
  THEN Call("InsertSection", path, tag, <<>>, "SECTION_DUPLICATED", nodes)
  ELSE IF n = NoNode THEN Call("InsertSection", path, tag, <<>>, "crash", nodes)
  ELSE Call("InsertSection", path, tag, <<>>, "SUCCESS",
            Append(nodes, Node(tag, n, nodes[n].level + 1)))

(* The search for the full path misses at the top level, where the path    *)
(* begins with a backslash and so with an empty tag; a missing parent is   *)
(* not noticed and dereferenced.                                           *)
InsertSection(path, tag) ==
  LET n == GetSectionPointer(nodes, path) IN
  IF HasSection(nodes, path \o <<"\\">> \o tag)
  THEN Call("InsertSection", path, tag, <<>>, "SECTION_DUPLICATED", nodes)
  ELSE IF n = NoNode THEN Call("InsertSection", path, tag, <<>>, "crash", nodes)
  ELSE Call("InsertSection", path, tag, <<>>, "SUCCESS",
            Append(nodes, Node(tag, n, nodes[n].level + 1)))

EditCall ==
  \E path \in Paths :
    \/ ClearKVs(path) \/ ClearRawLines(path) \/ ClearSections(path)
    \/ \E k \in Keys :
         \/ EraseKV(path, k) \/ InsertRawLine(path, k)
         \/ EraseSection(path, k) \/ InsertSection(path, k)
         \/ \E v \in Values : InsertKV(path, k, v) \/ OverwriteKV(path, k, v)

-----------------------------------------------------------------------------
(* ParseFile: a file that cannot be opened and an empty one are the same.  *)
CodecInit ==
  /\ file \in Files
  /\ nodes = Fresh
  /\ open = <<Root>>
  /\ stack = <<>>
  /\ status = IF file = <<>> THEN "CANNOT_OPEN_FILE" ELSE "parsing"
  /\ last = NoCall
  /\ edits = IF file \in Edited THEN 0 ELSE MaxEdits
  /\ saved = [done |-> FALSE, tree |-> <<>>]

CodecNext == ParseImpl \/ GenerateAndParse \/ EditCall

CodecSpec == CodecInit /\ [][CodecNext]_codecVars

-----------------------------------------------------------------------------
(* Properties.                                                             *)

Comments == Seq(Words)
Pairs == Seq([key : Words, value : Words, comments : Comments])
Statuses == {"parsing", "wild", "SUCCESS", "CANNOT_OPEN_FILE",
             "PARSE_FAIL_LINE_TYPE_ERROR", "PARSE_FAIL_SECTION_TAG_NOT_MATCH"}

(* The types of the variables: the code's types, and every pointer the     *)
(* parser keeps points to a node that exists.                              *)
CodecTypeOK ==
  /\ file \in Seq(Words)
  /\ nodes \in Seq([tag : Words, parent : Nat, level : Int, comments : Comments,
                    pairs : Pairs, raw : Comments])
  /\ open \in Seq(DOMAIN nodes)
  /\ stack \in Seq([node : DOMAIN nodes, pair : Nat])
  /\ status \in Statuses
  /\ edits \in 0 .. MaxEdits

(* CommentedNodeStack is as deep as the nesting of the running ParseImpl   *)
(* calls below the outermost one, and its entries point to the last pair   *)
(* of each open section, or to the section: so a comment belongs to what   *)
(* stands before it, and no pointer into a list outlives its element.      *)
StackFollowsSections ==
  status = "parsing" =>
    /\ Len(open) = Len(stack) + 1
    /\ \A i \in DOMAIN stack : stack[i] = LastIn(nodes, open[i + 1])

(* The calls do not look at the tags, keys and raw lines they are given: a *)
(* line of the text starts with the key and is split at the first =, and a *)
(* tag that starts with a slash makes the line of an end.  W holds what is *)
(* written.                                                                *)
Plain(key) == ~Contains(key, "=") /\ (key # <<>> => key[1] \notin {"#", "<"})

Writable(t) ==
  \E W \in SUBSET DOMAIN t :
    /\ Root \in W
    /\ \A n \in DOMAIN t : t[n].parent \in W => n \in W
    /\ \A n \in W \ {Root} :
         /\ t[n].tag # <<>> => t[n].tag[1] # "/"
         /\ \A i \in DOMAIN t[n].pairs : Plain(t[n].pairs[i].key)
         /\ \A i \in DOMAIN t[n].raw : Plain(Front(t[n].raw[i]))

(* Text that Generate writes parses without an error and reads back as the *)
(* tree it was written from, every comment at its section or pair, also if *)
(* the file left sections open; what RootNode itself holds is lost.        *)
GeneratedReadsBack ==
  saved.done /\ status # "parsing" /\ Writable(saved.tree) =>
    status = "SUCCESS" /\ View(nodes) = View(saved.tree)

Found(t, path, key) == IF HasKV(t, path, key) THEN <<GetKV(t, path, key)>> ELSE <<>>
Edits(calls) == edits' = edits + 1 /\ last'.call \in calls

(* InsertKV and OverwriteKV set the one key they name and EraseKV takes    *)
(* away one pair with that key; what GetKV finds for any other key, in the *)
(* section or elsewhere, is not changed, nor is anything by a failed call. *)
KeyEditsAreLocal ==
  [][Edits({"InsertKV", "OverwriteKV", "EraseKV"}) =>
       \A path \in Paths, key \in Keys : HasSection(nodes, path) =>
         IF /\ GetSectionPointer(nodes, path) = GetSectionPointer(nodes, last'.path)
            /\ key = last'.key /\ last'.result = "SUCCESS"
         THEN last'.call # "EraseKV" => Found(nodes', path, key) = <<last'.value>>
         ELSE Found(nodes', path, key) = Found(nodes, path, key)]_codecVars

(* A path that ends in a backslash leads where it would without it, and a  *)
(* tag may hold backslashes, but then the path of the new section is cut   *)
(* into other tags than those on the way to it.                            *)
Addresses(path, tag) == path # <<>> /\ Last(path) # "\\" /\ ~Contains(tag, "\\")

(* A section InsertSection adds below another one is found under its path, *)
(* empty and one level deeper than its parent; at the top level an older   *)
(* section with the tag may hide it.                                       *)
NewSectionIsFound ==
  [][Edits({"InsertSection"}) /\ last'.result = "SUCCESS" /\ Addresses(last'.path, last'.key) =>
       LET n == GetSectionPointer(nodes', last'.path \o <<"\\">> \o last'.key) IN
       /\ n \in DOMAIN nodes' \ DOMAIN nodes
       /\ nodes'[n].pairs = <<>>
       /\ nodes'[n].level = nodes'[nodes'[n].parent].level + 1]_codecVars
=============================================================================
