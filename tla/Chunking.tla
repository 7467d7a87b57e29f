------------------------------- MODULE Chunking -------------------------------
(***************************************************************************)
(* From a file to its chunks: the extraction of blocks of each format      *)
(* (pipeline/structure.py), the chunker that knows the structure           *)
(* (adapters/chunking/structural.py), the ones that do not (basic.py) and  *)
(* the stage that chooses (pipeline/stages/chunk.py).                      *)
(*                                                                         *)
(* A document is a sequence of lines, of which only the kind matters; a    *)
(* line is named by its place, and is one character long.  Lines joined by *)
(* a space are written one after the other; Gap is an empty line between   *)
(* two pieces.  The lines of a PDF are told apart by its pages.            *)
(***************************************************************************)
EXTENDS SequencesExt, Naturals

CONSTANTS Documents,    \* documents to chunk: a set of [mime, lines]
          MaxChunk,     \* _MAX_CHUNK_CHARS
          MinChunk      \* _MIN_CHUNK_CHARS

ASSUME ChunkingAssumption == MinChunk \in Nat /\ MaxChunk \in Nat \ {0} /\ MinChunk <= MaxChunk

Kinds(mime) ==
    CASE mime = "markdown" -> {"h1", "h2", "text", "item", "row", "sep", "blank", "fence"}
      [] mime = "docx" -> {"h1", "h2", "text", "blank", "table"}
      [] mime = "pdf" -> {"page", "pair", "text", "blank", "table"}
      [] mime = "code" -> {"def", "text", "blank"}
      [] mime = "plain" -> {"text", "blank"}

\* A table of docx or pdf has two rows, named i and -i by its place i; any other line is i.
Gap == 0
Line(d, u) == IF u < 0 THEN "table" ELSE d.lines[u]
Headings == {"h1", "h2"}
Level(kind) == IF kind = "h1" THEN 1 ELSE 2

Block(type, units) == [type |-> type, units |-> units]
Heading(d, i) == [type |-> "heading", units |-> <<i>>, level |-> Level(d.lines[i])]
Nonempty(block) == block.units # <<>>
-----------------------------------------------------------------------------
(* Cutting a sequence of lines.  Through is a loop over a sequence, written  *)
(* as a function so that TLC evaluates what the model defines with it once.  *)
Through(step(_, _), base, s) ==
    LET after[i \in 0 .. Len(s)] == IF i = 0 THEN base ELSE step(after[i - 1], s[i])
    IN  after[Len(s)]

\* re.split at the lines where At holds, which are dropped; empty pieces too.
SplitAt(units, At(_)) ==
    LET step(s, u) ==
            IF At(u) THEN [done |-> Append(s.done, s.cur), cur |-> <<>>]
            ELSE [s EXCEPT !.cur = Append(@, u)]
        end == Through(step, [done |-> <<>>, cur |-> <<>>], units)
    IN  SelectSeq(Append(end.done, end.cur), LAMBDA piece : piece # <<>>)

\* re.split before the lines where Opens holds.
SplitBefore(units, Opens(_)) ==
    LET step(s, u) ==
            IF s = <<>> \/ Opens(u) THEN Append(s, <<u>>)
            ELSE [s EXCEPT ![Len(s)] = Append(@, u)]
    IN  Through(step, <<>>, units)

Blank(d, u) == u # Gap /\ Line(d, u) = "blank"
Paragraphs(d, units) == SplitAt(units, LAMBDA u : Blank(d, u))

\* str.strip
Strip(d, units) ==
    LET before == {i \in DOMAIN units : \A j \in 1 .. i : Blank(d, units[j])}
        behind == {i \in DOMAIN units : \A j \in i .. Len(units) : Blank(d, units[j])}
    IN  SubSeq(units, Cardinality(before) + 1, Len(units) - Cardinality(behind))
-----------------------------------------------------------------------------
(* structure.py: the blocks of each format.                                  *)
Scan == [blocks |-> <<>>, buffer |-> <<>>, tabela |-> <<>>, codigo |-> <<>>, dentro |-> FALSE]

FlushParagrafo(s) ==
    IF s.buffer = <<>> THEN s
    ELSE [s EXCEPT !.blocks = Append(@, Block("paragraph", s.buffer)), !.buffer = <<>>]

\* _parse_md_table leaves the |---| lines out.
ParseMdTable(d, units) == SelectSeq(units, LAMBDA u : Line(d, u) # "sep")
FlushTabela(d, s) ==
    LET rows == ParseMdTable(d, s.tabela)
    IN  [s EXCEPT !.blocks = IF rows = <<>> THEN @ ELSE Append(@, Block("table", rows)), !.tabela = <<>>]

KeepTable(d, s) == FlushParagrafo(s)
FlushAll(d, s) == FlushTabela(d, FlushParagrafo(s))

Fence(d, s) ==
    IF s.dentro
    THEN [s EXCEPT !.blocks = Append(@, Block("code", s.codigo)), !.codigo = <<>>, !.dentro = FALSE]
    ELSE [FlushAll(d, s) EXCEPT !.dentro = TRUE]

MarkdownLine(d, s, i) ==
    LET kind == d.lines[i]
        p == FlushParagrafo(s)
        t == FlushTabela(d, s)
        both == FlushParagrafo(t)
    IN  CASE kind = "fence" -> Fence(d, s)
          [] kind # "fence" /\ s.dentro -> [s EXCEPT !.codigo = Append(@, i)]
          [] ~s.dentro /\ kind \in {"row", "sep"} -> [p EXCEPT !.tabela = Append(@, i)]
          [] ~s.dentro /\ kind \in Headings -> [both EXCEPT !.blocks = Append(@, Heading(d, i))]
          [] ~s.dentro /\ kind = "item" -> [both EXCEPT !.blocks = Append(@, Block("list_item", <<i>>))]
          [] ~s.dentro /\ kind = "blank" -> both
          [] ~s.dentro /\ kind = "text" -> [t EXCEPT !.buffer = Append(@, i)]

\* A fence left open ends with the file.
MarkdownEnd(d, s) ==
    FlushAll(d, IF s.dentro /\ s.codigo # <<>>
                THEN [s EXCEPT !.blocks = Append(@, Block("code", s.codigo))] ELSE s)

Places(d) == [i \in DOMAIN d.lines |-> i]
MarkdownBlocks(d) ==
    MarkdownEnd(d, Through(LAMBDA s, i : MarkdownLine(d, s, i), Scan, Places(d))).blocks

TableOf(i) == Block("table", <<i, 0 - i>>)

DocxBlock(d, i) ==
    CASE d.lines[i] \in Headings -> <<Heading(d, i)>>
      [] d.lines[i] = "table" -> <<TableOf(i)>>
      [] d.lines[i] = "text" -> <<Block("paragraph", <<i>>)>>
      [] OTHER -> <<>>
DocxBlocks(d) == FlattenSeq([i \in DOMAIN d.lines |-> DocxBlock(d, i)])

\* A page with ruled tables: its tables, then the prose outside them.
BorderedPage(d, page) ==
    LET tables == SelectSeq(page, LAMBDA u : d.lines[u] = "table")
        prose == Paragraphs(d, SelectSeq(page, LAMBDA u : d.lines[u] # "table"))
    IN  [k \in DOMAIN tables |-> TableOf(tables[k])] \o [k \in DOMAIN prose |-> Block("paragraph", prose[k])]

\* Any other page is read line by line: a label with its value is a table of one row.
PageLine(d, s, u) ==
    CASE d.lines[u] = "pair" ->
             [FlushParagrafo(s) EXCEPT !.blocks = Append(@, Block("table", <<u>>))]
      [] d.lines[u] = "blank" -> FlushParagrafo(s)
      [] d.lines[u] = "text" -> [s EXCEPT !.buffer = Append(@, u)]
LinePage(d, page) == FlushParagrafo(Through(LAMBDA s, u : PageLine(d, s, u), Scan, page)).blocks

PdfBlocks(d) ==
    LET pages == SplitAt(Places(d), LAMBDA u : d.lines[u] = "page")
        bordered(page) == \E k \in DOMAIN page : d.lines[page[k]] = "table"
    IN  FlattenSeq([p \in DOMAIN pages |->
            IF bordered(pages[p]) THEN BorderedPage(d, pages[p]) ELSE LinePage(d, pages[p])])

\* The plain text has a table's rows one after the other, and no page marks.
Text(d) ==
    FlattenSeq([i \in DOMAIN d.lines |->
        CASE d.lines[i] = "table" -> IF d.mime = "pdf" THEN <<i, 0 - i>> ELSE <<>>
          [] d.lines[i] = "page" -> <<>>
          [] OTHER -> <<i>>])

PlainBlocks(d) == LET ps == Paragraphs(d, Text(d)) IN [k \in DOMAIN ps |-> Block("paragraph", ps[k])]
CodeBlocks(d) == SelectSeq(<<Block("code", Strip(d, Text(d)))>>, Nonempty)

ExtractBlocks(d) ==
    LET own == CASE d.mime = "pdf" -> PdfBlocks(d)
                 [] d.mime = "docx" -> DocxBlocks(d)
                 [] d.mime = "markdown" -> MarkdownBlocks(d)
                 [] d.mime = "code" -> CodeBlocks(d)
                 [] OTHER -> PlainBlocks(d)
    IN  IF own = <<>> THEN PlainBlocks(d) ELSE own
-----------------------------------------------------------------------------
(* basic.py: pieces packed together up to the limit, cut when longer.        *)
Cuts(piece) == (Len(piece) - 1) \div MaxChunk
Slices(piece) == [k \in 1 .. Cuts(piece) |-> SubSeq(piece, (k - 1) * MaxChunk + 1, k * MaxChunk)]
Rest(piece) == SubSeq(piece, Cuts(piece) * MaxChunk + 1, Len(piece))

PackPiece(s, piece) ==
    LET candidate == IF s.buffer = <<>> THEN piece ELSE s.buffer \o <<Gap>> \o piece
        full == IF s.buffer = <<>> THEN s.chunks ELSE Append(s.chunks, s.buffer)
    IN  IF Len(candidate) <= MaxChunk THEN [s EXCEPT !.buffer = candidate]
        ELSE [chunks |-> full \o Slices(piece), buffer |-> Rest(piece)]

\* A tiny rest joins the chunk before it.
JoinTiny(all) ==
    LET n == Len(all)
    IN  IF n >= 2 /\ Len(all[n]) < MinChunk
        THEN Append(SubSeq(all, 1, n - 2), all[n - 1] \o <<Gap>> \o all[n])
        ELSE all

Pack(d, pieces) ==
    LET stripped == SelectSeq([k \in DOMAIN pieces |-> Strip(d, pieces[k])], LAMBDA piece : piece # <<>>)
        end == Through(PackPiece, [chunks |-> <<>>, buffer |-> <<>>], stripped)
    IN  JoinTiny(IF end.buffer = <<>> THEN end.chunks ELSE Append(end.chunks, end.buffer))

ParagraphChunk(d, units) == Pack(d, Paragraphs(d, units))
MarkdownChunk(d, units) == Pack(d, SplitBefore(units, LAMBDA u : Line(d, u) \in Headings))
CodeChunk(d, units) ==
    LET tops == SplitBefore(units, LAMBDA u : Line(d, u) = "def")
    IN  IF Len(tops) <= 1 THEN ParagraphChunk(d, units) ELSE Pack(d, tops)

\* default_chunker_registry, for_mime
ForMime(d, units) ==
    CASE d.mime = "markdown" -> MarkdownChunk(d, units)
      [] d.mime = "code" -> CodeChunk(d, units)
      [] OTHER -> ParagraphChunk(d, units)
-----------------------------------------------------------------------------
(* structural.py: a table gives a chunk per row, the prose between two       *)
(* headings or tables is packed; each chunk carries its trail of headings.   *)
Carrying(path, header, units) == [path |-> path, header |-> header, units |-> units]

FlushProsa(d, s) ==
    LET text == FlattenSeq([k \in DOMAIN s.prosa |-> Paragraphs(d, s.prosa[k])])
        pieces == Pack(d, text)
        path == [k \in DOMAIN s.pilha |-> s.pilha[k].units[1]]
    IN  [s EXCEPT !.chunks = @ \o [k \in DOMAIN pieces |-> Carrying(path, <<>>, pieces[k])], !.prosa = <<>>]

\* The first row of several is the header of the others.
EmitirTabela(rows, path) ==
    IF Len(rows) = 1 THEN <<Carrying(path, <<>>, rows)>>
    ELSE [k \in 1 .. Len(rows) - 1 |-> Carrying(path, <<rows[1]>>, <<rows[k + 1]>>)]

\* The headings that stay open under a new one of this level.
StillDeeper(pilha, level) == SelectSeq(pilha, LAMBDA h : h.level <= level)
StillOpen(pilha, level) == SelectSeq(pilha, LAMBDA h : h.level < level)

StructuralBlock(d, s, block) ==
    LET f == FlushProsa(d, s)
        path == [k \in DOMAIN s.pilha |-> s.pilha[k].units[1]]
    IN  CASE block.type = "heading" -> [f EXCEPT !.pilha = Append(StillOpen(@, block.level), block)]
          [] block.type = "table" -> [f EXCEPT !.chunks = @ \o EmitirTabela(block.units, path)]
          [] OTHER -> IF Strip(d, block.units) = <<>> THEN s ELSE [s EXCEPT !.prosa = Append(@, block.units)]

ChunkBlocks(d, blocks) ==
    LET start == [chunks |-> <<>>, pilha |-> <<>>, prosa |-> <<>>]
    IN  FlushProsa(d, Through(LAMBDA s, block : StructuralBlock(d, s, block), start, blocks)).chunks

\* ChunkStage.run: the structure is used only when there is a table.
HasTable(blocks) == \E k \in DOMAIN blocks : blocks[k].type = "table"
ChunkStage(d) ==
    LET blocks == ExtractBlocks(d)
        structural == IF HasTable(blocks) THEN ChunkBlocks(d, blocks) ELSE <<>>
        plain == ForMime(d, Text(d))
    IN  IF structural # <<>> THEN structural ELSE [k \in DOMAIN plain |-> Carrying(<<>>, <<>>, plain[k])]
-----------------------------------------------------------------------------
(* What the chunks are compared with, read off the lines themselves.         *)
Structured(d) == HasTable(ExtractBlocks(d))
Fenced(d, i) == Cardinality({j \in 1 .. i - 1 : d.lines[j] = "fence"}) % 2 = 1 \/ d.lines[i] = "fence"
RowAt(d, i) == d.mime = "markdown" /\ d.lines[i] = "row" /\ ~Fenced(d, i)

\* The first row of a run of table lines that has another row.
HeaderRow(d, i) ==
    LET table(a, b) == \A k \in a .. b : d.lines[k] \in {"row", "sep"}
    IN  /\ RowAt(d, i)
        /\ \A j \in 1 .. i - 1 : table(j, i) => d.lines[j] = "sep"
        /\ \E j \in i + 1 .. Len(d.lines) : table(i, j) /\ d.lines[j] = "row"

Telling(d, structured, u) ==
    IF ~structured THEN Line(d, u) # "blank"
    ELSE CASE d.mime = "markdown" /\ Fenced(d, u) -> d.lines[u] \notin {"blank", "fence"}
           [] d.mime = "markdown" /\ ~Fenced(d, u) ->
                  d.lines[u] \in {"text", "item"} \/ (RowAt(d, u) /\ ~HeaderRow(d, u))
           [] d.mime # "markdown" -> u < 0 \/ d.lines[u] \in {"text", "pair"}

\* What the chunks should hold, and what they hold.
Told(d, structured) ==
    LET units == FlattenSeq([i \in DOMAIN d.lines |->
                    IF d.lines[i] = "table" /\ (d.mime = "pdf" \/ structured) THEN <<i, 0 - i>> ELSE <<i>>])
    IN  SelectSeq(units, LAMBDA u : Line(d, u) # "page" /\ Telling(d, structured, u))
Written(d, all) ==
    SelectSeq(FlattenSeq([k \in DOMAIN all |-> all[k].units]), LAMBDA u : u # Gap /\ Line(d, u) # "blank")

\* How many documents lose or move a line, and how many have a chunk with another trail.
LinesLost ==
    Cardinality({d \in Documents :
        \E structured \in {Structured(d)}, all \in {ChunkStage(d)} :
            \E told \in {Told(d, structured)}, written \in {Written(d, all)} :
                ~ IF d.mime = "pdf" THEN ToSet(written) = ToSet(told) /\ Len(written) = Len(told)
                  ELSE written = told})

Encloses(d, j, first) ==
    LET title(i) == d.lines[i] \in Headings /\ (d.mime = "markdown" => ~Fenced(d, i))
    IN  title(j) /\ \A i \in j + 1 .. first - 1 : title(i) => Level(d.lines[i]) > Level(d.lines[j])

Strays(d, chunk) ==
    LET first == IF chunk.units[1] < 0 THEN 0 - chunk.units[1] ELSE chunk.units[1]
    IN  chunk.path # SelectSeq([j \in 1 .. first - 1 |-> j], LAMBDA j : Encloses(d, j, first))
Strayed ==
    Cardinality({d \in Documents : d.mime \in {"markdown", "docx"} /\ Structured(d) /\
        \E all \in {ChunkStage(d)} : \E k \in DOMAIN all : Strays(d, all[k])})
===============================================================================
