------------------------------ MODULE HttpRequest ------------------------------
(***************************************************************************)
(* HttpRequest::parse (src/http/httprequest.cpp) over Util::referTil and   *)
(* the case-insensitive header table (src/util).                           *)
(*                                                                         *)
(* Raw data are a sequence of tokens: a delimiter (one character), or a    *)
(* word, which is a run of characters without one.  Places in the data are *)
(* counted in tokens from 1; a place may lie behind the end of the data,   *)
(* as an offset may.  A text is what is written on a token.                *)
(***************************************************************************)
EXTENDS Integers, SequencesExt

CONSTANT
  Word  \* [texts -> what to know of them: their length in characters, what
        \* ignoring case makes of them (folded) and what uriUnescape does]

Space == " "
CR == "CR"
LF == "LF"
Text == DOMAIN Word

\* (The other delimiters, and what a client writes of itself.)
ASSUME WordAssumption ==
  /\ {Space, CR, LF, "?", "&", ":", "HTTP/1.1"} \subseteq Text
  /\ \A text \in Text : Word[text].length \in Nat
  /\ Word["HTTP/1.1"].length = 8

Texts(tokens) == [i \in DOMAIN tokens |-> tokens[i].text]
Folded(texts) == [i \in DOMAIN texts |-> Word[texts[i]].folded]
UriUnescape(texts) == [i \in DOMAIN texts |-> Word[texts[i]].unescaped]

Length(texts) ==
  LET upTo[i \in 0..Len(texts)] == IF i = 0 THEN 0 ELSE upTo[i - 1] + Word[texts[i]].length
  IN upTo[Len(texts)]

-----------------------------------------------------------------------------
NotFound == [dst |-> <<>>, end |-> 0]
Found(refer) == refer.end # 0

\* Util::referTil<maxCount>: what lies from offset to the first of limits, which is
\* at end.  With a maxCount, the limit has to be within that many characters.
ReferTil(maxCount, data, offset, limits) ==
  LET ends == {i \in offset..Len(data) : data[i].text \in limits}
      dst == Texts(SubSeq(data, offset, Min(ends) - 1))
  IN IF ends = {} \/ (maxCount > 0 /\ Length(dst) >= maxCount)
     THEN NotFound ELSE [dst |-> dst, end |-> Min(ends)]

\* The arguments behind the "?" or "&" at a place, if there is one; end is the
\* space behind the last of them, or 0 if there is none.
Arguments(data, at) ==
  LET args[i \in 1..Len(data)] ==
        LET arg  == ReferTil(0, data, i + 1, {"&", Space})
            rest == args[arg.end]
        IN IF ~Found(arg) THEN [list |-> <<>>, end |-> 0]
           ELSE IF data[arg.end].text # "&" THEN [list |-> <<arg.dst>>, end |-> arg.end]
           ELSE [list |-> <<arg.dst>> \o rest.list, end |-> rest.end]
  IN IF data[at].text = "?" THEN args[at] ELSE [list |-> <<>>, end |-> at]

\* parseRequestLine: the line and the place behind it, 0 if there is none.  The
\* arguments found before it fails have been added all the same.
ParseRequestLine(data) ==
  LET method  == ReferTil(8, data, 1, {Space})
      uri     == ReferTil(0, data, method.end + 1, {"?", Space})
      args    == Arguments(data, uri.end)
      version == ReferTil(10, data, args.end + 1, {CR})
      line(list, end) == [method |-> method.dst, uri |-> UriUnescape(uri.dst),
                          args |-> list, end |-> end]
  IN IF ~Found(method) \/ ~Found(uri) THEN line(<<>>, 0)
     ELSE IF args.end = 0 \/ ~Found(version) THEN line(args.list, 0)
     ELSE line(args.list, version.end + 2)

\* "Ignore spaces"
SkipSpaces(data, at) ==
  Min({i \in at..Len(data) : data[i].text # Space} \cup {Len(data) + 1})

\* parseRequestHeaders: names and values up to an empty line or to the end of the
\* data, and the place behind it, 0 if there is something else.
ParseRequestHeaders(data, offset) ==
  LET from[i \in Nat] ==
        IF i > Len(data) \/ data[i].text = CR THEN [list |-> <<>>, end |-> i + 2]
        ELSE LET name  == ReferTil(0, data, i, {":"})
                 value == ReferTil(0, data, SkipSpaces(data, name.end + 1), {CR})
                 rest  == from[value.end + 2]
             IN IF ~Found(name) \/ ~Found(value) THEN [list |-> <<>>, end |-> 0]
                ELSE [list |-> <<[name |-> name.dst, value |-> value.dst]>> \o rest.list,
                      end |-> rest.end]
  IN from[offset]

\* NocaseCompare
SameName(left, right) == Folded(left) = Folded(right)

\* Mutant of Values: emplace replaces.
Values_last(list, name) ==
  LET places == {i \in DOMAIN list : SameName(list[i].name, name)} IN
  IF places = {} THEN {} ELSE {list[Max(places)].value}
\* m_headers.find(name): emplace has kept the first of equal names.
Values(list, name) ==
  LET places == {i \in DOMAIN list : SameName(list[i].name, name)} IN
  IF places = {} THEN {} ELSE {list[Min(places)].value}

\* m_isKeepAlive
KeepAlive(list) ==
  \A value \in Values(list, <<"Connection">>) : Folded(value) # <<"close">>

\* parse(): the request line, the headers and where the body begins.  The strings of
\* method and URI are only shown when the request is valid.
Parse(data) ==
  LET line == ParseRequestLine(data)
      headers == ParseRequestHeaders(data, line.end)
      valid == data # <<>> /\ line.end # 0 /\ headers.end # 0
  IN [valid |-> valid, method |-> line.method, uri |-> line.uri, args |-> line.args,
      keepAlive |-> valid => KeepAlive(headers.list),
      end |-> IF valid THEN headers.end ELSE 0]
=============================================================================
