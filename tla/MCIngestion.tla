----------------------------- MODULE MCIngestion -----------------------------
(* One scanned file, one file named to the skill, one attachment; and every   *)
(* document of up to five lines, or pages and tables, of each format.         *)
EXTENDS Ingestion, Chunking, TLC

DocumentsOf(mime, n) == [mime : {mime}, lines : UNION {[1 .. k -> Kinds(mime)] : k \in 1 .. n}]
MCDocuments == DocumentsOf("markdown", 5) \cup DocumentsOf("docx", 5) \cup DocumentsOf("pdf", 5)
               \cup DocumentsOf("code", 5) \cup DocumentsOf("plain", 5)

(* Contents, and calls, are interchangeable. *)
Symmetry == Permutations(Content) \cup Permutations(Request)

Chunked(d) == chunks[d].text # None

(* Once the chunks of a document are stored, every line of it with something *)
(* to say is in exactly one of them, in the order of the document, whatever  *)
(* fences, tables and limits cut it; only a PDF page with ruled tables tells *)
(* its tables first.  The document is any of Documents.                      *)
EveryLineKept == \A d \in Docs : Chunked(d) => LinesLost = 0

(* A stored chunk of a document with tables names the headings that enclose  *)
(* its first line, outermost first, and no other.                            *)
TrailEncloses == \A d \in Docs : Chunked(d) => Strayed = 0
==============================================================================
