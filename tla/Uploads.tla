-------------------------------- MODULE Uploads --------------------------------
(****************************************************************************)
(* Multipart uploads (tork-core/src/multipart.rs with the form binding that  *)
(* tork-macros generates): several requests at once, one chunk, one field or *)
(* one call of a handler per step.                                           *)
(*                                                                           *)
(* Spool writes, reads and saves run on a blocking thread which owns the     *)
(* file meanwhile and finishes its work even when the request is dropped.    *)
(* A byte is its position in its file.                                       *)
(****************************************************************************)
EXTENDS Integers, Sequences, FiniteSets, FiniteSetsExt

CONSTANTS
  Request,   \* the requests
  Name,      \* the names of form fields
  Path,      \* the destinations of saves
  Route, App, Builtin, \* UploadConfig of the route and of the app, the defaults
  Unset,     \* a limit that a configuration leaves open
  Flush,     \* SPOOL_FLUSH_THRESHOLD
  Model,     \* the #[derive(FormModel)] struct: a sequence of fields
             \* [name, file, upload, many, required, max, sniff]
  Chunk,     \* the sizes of chunks and of text fields
  MaxOps     \* bound: calls of a handler on its uploads

Fields == [name : Name, file : BOOLEAN, upload : BOOLEAN, many : BOOLEAN,
           required : BOOLEAN, max : Nat \cup {Unset}, sniff : BOOLEAN]

Limits == {"body", "file", "text", "files", "fields"}

ASSUME UploadsAssumption ==
  /\ Route \in [Limits -> Nat \cup {Unset}] /\ App \in [Limits -> Nat \cup {Unset}]
  /\ Builtin \in [Limits -> Nat]
  /\ Unset \notin Nat \cup Request
  /\ Flush \in Nat \ {0} /\ Chunk \subseteq Nat \ {0} /\ MaxOps \in Nat
  /\ Model \in Seq(Fields)

VARIABLES
  pc,     \* where each request is
  form,   \* MultipartForm being parsed: [parts, total, texts, files]
  cur,    \* the file part being received: [name, id, size, buf, data, pos]
  bound,  \* the fields of the struct bound so far, a sequence of parts each
  ops,    \* calls of the handler
  task,   \* work of the blocking thread that outlives its request: saves
  saved,  \* history: the saves that returned Ok, as <<path, request, id>>
  disk,   \* the files at the destinations
  answer  \* the status of each request

uploads == <<pc, form, cur, bound, ops, task, saved, disk, answer>>

Nobody  == [by |-> Unset, id |-> 0, data |-> <<>>]
NoFile  == [name |-> Unset, id |-> 0, size |-> 0, buf |-> <<>>, data |-> <<>>,
            pos |-> 0, here |-> FALSE]
NoForm  == [parts |-> <<>>, total |-> 0, texts |-> <<>>, files |-> <<>>]
NoTask  == [path |-> Unset, field |-> 0, nth |-> 0, id |-> 0, data |-> <<>>, open |-> FALSE]

UploadsInit ==
  /\ pc = [r \in Request |-> "head"]
  /\ form = [r \in Request |-> NoForm]
  /\ cur = [r \in Request |-> NoFile]
  /\ bound = [r \in Request |-> <<>>]
  /\ ops = [r \in Request |-> 0]
  /\ task = [r \in Request |-> NoTask]
  /\ saved = {}
  /\ disk \in [Path -> {Nobody, [Nobody EXCEPT !.by = "someone"]}]
  /\ answer = [r \in Request |-> Unset]

\* UploadConfig::merge, then resolve: the route over the app over the defaults.
Limit(l) == IF Route[l] # Unset THEN Route[l]
            ELSE IF App[l] # Unset THEN App[l] ELSE Builtin[l]

Goto(r, where) == pc' = [pc EXCEPT ![r] = where]

\* The request ends; what it holds is dropped, a running save goes on.
End(r, status) ==
  /\ Goto(r, "done")
  /\ answer' = [answer EXCEPT ![r] = status]
  /\ form' = [form EXCEPT ![r] = NoForm]
  /\ cur' = [cur EXCEPT ![r] = NoFile]
  /\ bound' = [bound EXCEPT ![r] = <<>>]
  /\ ops' = [ops EXCEPT ![r] = 0]
  /\ UNCHANGED <<task, saved, disk>>

Outside == UNCHANGED <<ops, task, saved, disk, answer>>

-----------------------------------------------------------------------------
(* MultipartForm::parse *)

ParseHead(r) ==
  /\ pc[r] = "head"
  /\ \/ End(r, 400)  \* no Content-Type, no boundary
     \/ End(r, 500)  \* the body has been taken before
     \/ Goto(r, "next") /\ UNCHANGED <<form, cur, bound>> /\ Outside

\* The parser is waiting for the body.
Reading(r) == pc[r] \in {"next", "file"}

\* multer or the connection reports an error.
BadBody(r) == Reading(r) /\ End(r, 400)

TooMany(r) == Len(form[r].parts) + 1 > Limit("fields")

Part(n, isFile, size) == [name |-> n, file |-> isFile, size |-> size]

\* (Mutant) Text fields do not count towards the size of the body.
WithTextUncounted(f, n, k) ==
  [f EXCEPT !.parts = Append(@, Part(n, FALSE, k)),
            !.texts = Append(@, [name |-> n, id |-> Len(f.parts) + 1])]

WithText(f, n, k) ==
  [f EXCEPT !.parts = Append(@, Part(n, FALSE, k)),
            !.total = @ + k,
            !.texts = Append(@, [name |-> n, id |-> Len(f.parts) + 1])]

\* A text field is read as a whole before any limit is looked at.
TextField(r, n, k) ==
  LET f == WithText(form[r], n, k) IN
  /\ pc[r] = "next"
  /\ IF TooMany(r) THEN End(r, 422)
     ELSE IF f.total > Limit("body") \/ k > Limit("text") THEN End(r, 413)
     ELSE /\ form' = [form EXCEPT ![r] = f]
          /\ UNCHANGED <<pc, cur, bound>> /\ Outside

FileField(r, n) ==
  /\ pc[r] = "next"
  /\ IF TooMany(r) THEN End(r, 422)
     ELSE IF Len(form[r].files) >= Limit("files") THEN End(r, 400)
     ELSE /\ form' = [form EXCEPT ![r].parts = Append(@, Part(n, TRUE, 0))]
          /\ cur' = [cur EXCEPT ![r] = [NoFile EXCEPT !.name = n, !.here = TRUE,
                                          !.id = Len(form[r].parts) + 1]]
          /\ Goto(r, "file")
          /\ UNCHANGED bound /\ Outside

Bytes(from, k) == [i \in 1 .. k |-> from + i]

FileChunk(r, k) ==
  LET c == [cur[r] EXCEPT !.size = @ + k, !.buf = @ \o Bytes(cur[r].size, k)]
      f == [form[r] EXCEPT !.total = @ + k, !.parts[c.id].size = c.size] IN
  /\ pc[r] = "file"
  /\ IF c.size > Limit("file") \/ f.total > Limit("body") THEN End(r, 413)
     ELSE /\ cur' = [cur EXCEPT ![r] = c]
          /\ form' = [form EXCEPT ![r] = f]
          /\ Goto(r, IF Len(c.buf) >= Flush THEN "flush" ELSE "file")
          /\ UNCHANGED bound /\ Outside

\* (Mutant) What is still in the buffer when the part ends is left there.
FlushedHead(c) == [c EXCEPT !.buf = <<>>, !.pos = Len(c.data)]

\* spool_flush: the buffer goes to the end of the spool.
Flushed(c) == [c EXCEPT !.data = @ \o c.buf, !.buf = <<>>, !.pos = Len(c.data \o c.buf)]

FlushDone(r) ==
  /\ pc[r] = "flush"
  /\ cur' = [cur EXCEPT ![r] = Flushed(@)]
  /\ Goto(r, "file")
  /\ UNCHANGED <<form, bound>> /\ Outside

\* The last flush rewinds the spool.
FileEnd(r) ==
  /\ pc[r] = "file"
  /\ form' = [form EXCEPT ![r].files = Append(@, [Flushed(cur[r]) EXCEPT !.pos = 0])]
  /\ cur' = [cur EXCEPT ![r] = NoFile]
  /\ Goto(r, "next")
  /\ UNCHANGED bound /\ Outside

\* The write to the spool fails, or its thread does.
FlushFails(r) == pc[r] \in {"flush", "file"} /\ End(r, 500)

FormEnd(r) ==
  /\ pc[r] = "next"
  /\ Goto(r, "bind")
  /\ UNCHANGED <<form, cur, bound>> /\ Outside

-----------------------------------------------------------------------------
(* from_multipart, as #[derive(FormModel)] generates it: field after field  *)

\* The elements of s at the positions I, in their order.
Nth(I, n)  == CHOOSE i \in I : Cardinality({j \in I : j <= i}) = n
Pick(s, I) == [n \in 1 .. Cardinality(I) |-> s[Nth(I, n)]]

Named(s, n) == {i \in DOMAIN s : s[i].name = n}
Earliest(I)    == {i \in I : \A j \in I : i <= j}

\* take_form_value(s), take_file_bytes(_list), take_upload_file(_list): where what
\* they take is.
TakenAt(s, fld) == IF fld.many THEN Named(s, fld.name) ELSE Earliest(Named(s, fld.name))

Taken(s, fld)     == Pick(s, TakenAt(s, fld))
Remaining(s, fld) == Pick(s, DOMAIN s \ TakenAt(s, fld))

\* A text value where FileBytes is wanted, or a file where a text is, is refused.
WrongKind(f, fld) ==
  LET own == IF fld.file THEN f.files ELSE f.texts
      other == IF fld.file THEN f.texts ELSE f.files IN
  /\ ~fld.many /\ (fld.file => ~fld.upload)
  /\ Named(own, fld.name) = {} /\ Named(other, fld.name) # {}

\* __validate_upload reads the prefix and rewinds; FileBytes has no cursor.
Sniffed(p, fld) ==
  IF fld.sniff /\ fld.upload THEN [p EXCEPT !.pos = 0] ELSE p

Validate(fld, s) ==
  IF fld.file THEN [i \in 1 .. Len(s) |-> Sniffed(s[i], fld)] ELSE s

TooLarge(fld, s) == fld.file /\ fld.max # Unset /\ \E i \in 1 .. Len(s) : s[i].size > fld.max

Bind(r) ==
  /\ pc[r] = "bind" /\ Len(bound[r]) < Len(Model)
  /\ LET fld == Model[Len(bound[r]) + 1]
         f == form[r]
         own == IF fld.file THEN f.files ELSE f.texts
         s == Taken(own, fld) IN
     \/ (WrongKind(f, fld) \/ (fld.required /\ s = <<>>)) /\ End(r, 422)
     \/ s # <<>> /\ TooLarge(fld, s) /\ End(r, 413)
     \/ s # <<>> /\ End(r, 422)  \* the value does not parse, the type is not allowed
     \/ s # <<>> /\ fld.file /\ End(r, 500)  \* the spool cannot be read
     \/ /\ ~WrongKind(f, fld) /\ ~TooLarge(fld, s)
        /\ fld.required => s # <<>>
        /\ bound' = [bound EXCEPT ![r] = Append(@, Validate(fld, s))]
        /\ form' = [form EXCEPT ![r] =
                      IF fld.file THEN [f EXCEPT !.files = Remaining(f.files, fld)]
                      ELSE [f EXCEPT !.texts = Remaining(f.texts, fld)]]
        /\ UNCHANGED <<pc, cur>> /\ Outside

\* The constraints of #[field(...)] come last; then the handler runs. The parts
\* that no field took are dropped.
Enter(r) ==
  /\ pc[r] = "bind" /\ Len(bound[r]) = Len(Model)
  /\ \/ End(r, 422)
     \/ /\ Goto(r, "handler")
        /\ form' = [form EXCEPT ![r].texts = <<>>, ![r].files = <<>>]
        /\ UNCHANGED <<cur, bound>> /\ Outside

-----------------------------------------------------------------------------
(* UploadFile: with_storage takes the spool, and gives it back only on Ok   *)

Call(r) == pc[r] = "handler" /\ ops[r] < MaxOps /\ ops' = [ops EXCEPT ![r] = @ + 1]

\* The uploads that request r's handler holds, as <<field, position>>.
Uploads(r) == UNION {{i} \X DOMAIN bound[r][i] :
                       i \in {j \in DOMAIN bound[r] : Model[j].file /\ Model[j].upload}}

At(r, u) == bound[r][u[1]][u[2]]

Store(r, u, p) == bound' = [bound EXCEPT ![r][u[1]][u[2]] = p]

\* read, read_chunk and seek_start, as far as they move the cursor. An I/O error
\* loses the spool.
Access(r, u) ==
  /\ Call(r) /\ At(r, u).here
  /\ \/ Store(r, u, [At(r, u) EXCEPT !.pos = At(r, u).size])
     \/ \E k \in Chunk : Store(r, u, [At(r, u) EXCEPT !.pos = Min({@ + k, At(r, u).size})])
     \/ Store(r, u, [At(r, u) EXCEPT !.pos = 0])
     \/ Store(r, u, [At(r, u) EXCEPT !.here = FALSE])
  /\ UNCHANGED <<pc, form, cur, task, saved, disk, answer>>

\* save_to, save_to_dir: the path is checked here, the rest happens elsewhere.
\* A path that is refused leaves the upload alone.
Save(r, u, p) ==
  /\ Call(r) /\ At(r, u).here /\ task[r] = NoTask
  /\ \/ UNCHANGED <<pc, bound, task>>
     \/ /\ task' = [task EXCEPT ![r] = [NoTask EXCEPT !.path = p, !.field = u[1], !.nth = u[2],
                                          !.id = At(r, u).id, !.data = At(r, u).data]]
        /\ Store(r, u, [At(r, u) EXCEPT !.here = FALSE])
        /\ Goto(r, "saving")
  /\ UNCHANGED <<form, cur, saved, disk, answer>>

\* The handler gets the result of its save, if it still waits.
SaveReturns(r, p) ==
  IF pc[r] = "saving"
  THEN Goto(r, "handler") /\ Store(r, <<task[r].field, task[r].nth>>, p)
  ELSE UNCHANGED <<pc, bound>>

Lost(r) == IF pc[r] = "saving" THEN [bound[r][task[r].field][task[r].nth] EXCEPT !.here = FALSE]
           ELSE NoFile

\* (Mutant) The destination is truncated when it exists.
MayOpenAny(p) == TRUE

\* create_new: there must be nothing at the path, not even a symbolic link.
MayOpen(p) == disk[p] = Nobody

OpenFile(r) ==
  /\ task[r] # NoTask /\ ~task[r].open
  /\ LET p == task[r].path IN
     IF MayOpen(p)
     THEN /\ disk' = [disk EXCEPT ![p] = [by |-> r, id |-> task[r].id, data |-> <<>>]]
          /\ task' = [task EXCEPT ![r].open = TRUE]
          /\ UNCHANGED <<pc, bound>>
     ELSE /\ SaveReturns(r, Lost(r))
          /\ task' = [task EXCEPT ![r] = NoTask]
          /\ UNCHANGED disk
  /\ UNCHANGED <<form, cur, ops, saved, answer>>

\* The copy succeeds, or stops anywhere with an error and leaves what it wrote.
Copy(r) ==
  /\ task[r] # NoTask /\ task[r].open
  /\ LET t == task[r] IN
     \/ /\ disk' = [disk EXCEPT ![t.path].data = t.data]
        /\ IF pc[r] = "saving"
           THEN /\ saved' = saved \cup {<<t.path, r, t.id>>}
                /\ SaveReturns(r, [bound[r][t.field][t.nth] EXCEPT !.here = TRUE, !.pos = Len(t.data)])
           ELSE UNCHANGED <<saved, pc, bound>>
     \/ /\ \E k \in 0 .. Len(t.data) : disk' = [disk EXCEPT ![t.path].data = SubSeq(t.data, 1, k)]
        /\ SaveReturns(r, Lost(r))
        /\ UNCHANGED saved
  /\ task' = [task EXCEPT ![r] = NoTask]
  /\ UNCHANGED <<form, cur, ops, answer>>

Return(r) == pc[r] = "handler" /\ \E s \in {200, 500} : End(r, s)

\* The client leaves or a timeout fires: the future of the request is dropped.
Cancel(r) == pc[r] # "done" /\ End(r, Unset)

UploadsNext ==
  \/ \E r \in Request :
       \/ ParseHead(r) \/ BadBody(r) \/ FileEnd(r) \/ FlushDone(r) \/ FlushFails(r) \/ FormEnd(r)
       \/ \E n \in Name : FileField(r, n) \/ (\E k \in Chunk : TextField(r, n, k))
       \/ \E k \in Chunk : FileChunk(r, k)
       \/ Bind(r) \/ Enter(r)
       \/ \E u \in Uploads(r) : Access(r, u) \/ (\E p \in Path : Save(r, u, p))
       \/ OpenFile(r) \/ Copy(r)
       \/ Return(r) \/ Cancel(r)

UploadsSpec == UploadsInit /\ [][UploadsNext]_uploads

-----------------------------------------------------------------------------
\* What is held of the parts s, byte by byte.
Held(s) == UNION {{i} \X (1 .. s[i].size) : i \in DOMAIN s}

\* What is parsed keeps every limit of the merged configuration at every moment,
\* counted from the parts themselves and not from the parser's counters, and what
\* is not yet spooled stays under the flush threshold except for one chunk
\* (multipart.rs:590-650: counters, their order, the two ways a part grows).
WithinLimits == \A r \in Request :
  LET parts == form[r].parts
      buf   == cur[r].buf IN
  /\ Len(parts) <= Limit("fields")
  /\ Cardinality({i \in DOMAIN parts : parts[i].file}) <= Limit("files")
  /\ Cardinality(Held(parts)) <= Limit("body")
  /\ \A i \in DOMAIN parts : parts[i].size <= Limit(IF parts[i].file THEN "file" ELSE "text")
  /\ Len(buf) < Flush \/ \E k \in Chunk : Len(buf) < Flush + k

\* The parts of a form, of one kind, that are called n.
Sent(parts, isFile, n) == {i \in DOMAIN parts : parts[i].name = n /\ parts[i].file = isFile}

\* No two fields of the struct are of one kind and name.
DistinctFields ==
  \A i, j \in DOMAIN Model :
    Model[i].name = Model[j].name /\ Model[i].file = Model[j].file => i = j

\* A handler starts with exactly what was sent: a file holds all its bytes in their
\* order with the cursor at the start, and each field of the struct holds the parts
\* of its name and kind as they came, the first one if it takes one (with no two
\* fields of one kind and name; multipart.rs:663-740, common.rs:219-280).
BoundAsSent == \A r \in Request : DistinctFields /\ pc[r] = "handler" /\ ops[r] = 0 =>
  \A i \in DOMAIN Model :
    LET fld == Model[i]
        sent == Sent(form[r].parts, fld.file, fld.name)
        got == bound[r][i] IN
    /\ {got[j].id : j \in DOMAIN got} = IF fld.many THEN sent ELSE Earliest(sent)
    /\ \A j, k \in DOMAIN got : j < k => got[j].id < got[k].id
    /\ fld.file => \A j \in DOMAIN got :
         /\ got[j].data = Bytes(0, form[r].parts[got[j].id].size)
         /\ got[j].pos = 0 /\ got[j].here
    /\ fld.required => got # <<>>

\* A save that returned Ok to the handler is never taken away by another one: the
\* destination holds that upload and all of it, whoever else saves there and however
\* the requests end (multipart.rs:340-355: the check and the open are two steps).
SavedIsKept == \A s \in saved :
  /\ disk[s[1]].by = s[2] /\ disk[s[1]].id = s[3]
  /\ disk[s[1]].data = Bytes(0, Len(disk[s[1]].data))
  /\ bound[s[2]] # <<>> => \E u \in Uploads(s[2]) :
       At(s[2], u).id = s[3] /\ Len(disk[s[1]].data) = At(s[2], u).size

=============================================================================
