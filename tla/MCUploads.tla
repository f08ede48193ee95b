------------------------------- MODULE MCUploads -------------------------------
EXTENDS Uploads, TLC

CONSTANTS r1, r2, a, b, target

MCRoute   == [l \in Limits |-> CASE l = "file" -> 3 [] OTHER -> Unset]
MCApp     == [l \in Limits |-> CASE l = "body" -> 3 [] l = "file" -> 1 [] l = "files" -> 2 [] OTHER -> Unset]
MCBuiltin == [l \in Limits |-> CASE l = "text" -> 1 [] l = "fields" -> 2 [] OTHER -> 9]

\* struct { a: UploadFile, b: Vec<UploadFile>, b: Option<String> }
MCModel == <<
  [name |-> a, file |-> TRUE, upload |-> TRUE, many |-> FALSE, required |-> TRUE, max |-> 2, sniff |-> TRUE],
  [name |-> b, file |-> TRUE, upload |-> FALSE, many |-> TRUE, required |-> FALSE, max |-> Unset, sniff |-> TRUE],
  [name |-> b, file |-> FALSE, upload |-> FALSE, many |-> FALSE, required |-> FALSE, max |-> Unset, sniff |-> FALSE]>>

\* Requests share nothing before they save: one of them parses at a time.
OneParses == Cardinality({r \in Request : pc[r] \in {"next", "file", "flush", "bind"}}) <= 1

Symmetry == Permutations({r1, r2})
=============================================================================
