---------------------------- MODULE DocumentStore ----------------------------
(***************************************************************************)
(* The persistence of general documents, td/telegram/DocumentsManager.hpp: *)
(* store_document writes a cached document's fields in order into a record *)
(* of the database; parse_document reads them back, after a restart, with  *)
(* the version the record was written with, and hands the document to      *)
(* on_get_document without replacing a document already in the cache.     *)
(*                                                                         *)
(* A record is a sequence of fields, each with the kind its parser expects *)
(* (a string, a PhotoSize, a FileId); the parser checks constructor ids    *)
(* and lengths, so a field read from the bytes of another kind fails, and  *)
(* so does a read past the end.  Records written by a binary older than    *)
(* Version::SupportMinithumbnails have no minithumbnail.                   *)
(* DocumentsManager::documents_ and on_get_document are not part of the    *)
(* sources and follow the design's Entity Cache.                           *)
(***************************************************************************)
EXTENDS Naturals, Sequences

CONSTANTS
    FileIds,                \* valid file ids
    NoFile,                 \* FileId(): the invalid file id
    Names,                  \* file names and MIME types
    Minithumbnails,         \* minithumbnail bytes
    NoMinithumbnail,        \* the empty string: no minithumbnail
    Thumbnails,             \* PhotoSizes
    Slots,                  \* database records that hold a document
    CurrentVersion,         \* Version::Next - 1, what this binary writes
    SupportMinithumbnails,  \* Version::SupportMinithumbnails
    OldVersions,            \* versions of the records already in the database
    MaxRestarts             \* bound on restarts

ASSUME ConstantsAssumption ==
    /\ NoFile \notin FileIds
    /\ NoMinithumbnail \in Minithumbnails
    /\ SupportMinithumbnails \in Nat
    /\ CurrentVersion \in Nat
    /\ SupportMinithumbnails <= CurrentVersion
    /\ OldVersions \subseteq 0..CurrentVersion
    /\ MaxRestarts \in Nat

VARIABLES
    documents,  \* documents_: file id -> GeneralDocument, or Absent
    db,         \* slot -> [version, fields] of the record, or Empty
    stored,     \* slot -> the document the record was written from, or Empty
    parsed,     \* the last parse: the document its record was written from and
                \* the result, or NoParse
    restarts    \* restarts so far

vars == <<documents, db, stored, parsed, restarts>>

-----------------------------------------------------------------------------
(* Data *)

Absent == [absent |-> TRUE]
Empty == [empty |-> TRUE]
NoParse == [noParse |-> TRUE]

Documents == [fileName : Names, mimeType : Names, minithumbnail : Minithumbnails,
              thumbnail : Thumbnails, fileId : FileIds]

Field(kind, val) == [kind |-> kind, val |-> val]

\* A record of the database, of any layout.
Records == [version : 0..CurrentVersion,
            fields : Seq([kind : {"string", "photo", "file"},
                          val : Names \cup Minithumbnails \cup Thumbnails \cup FileIds])]

\* store_document: file_name, mime_type, minithumbnail, thumbnail, file_id.
DocumentFields(d) ==
    << Field("string", d.fileName), Field("string", d.mimeType),
       Field("string", d.minithumbnail), Field("photo", d.thumbnail),
       Field("file", d.fileId) >>

\* The same written by a binary older than SupportMinithumbnails.
OldDocumentFields(d) ==
    << Field("string", d.fileName), Field("string", d.mimeType),
       Field("photo", d.thumbnail), Field("file", d.fileId) >>

\* The record a binary of version v wrote for document d.
RecordOf(d, v) ==
    [version |-> v,
     fields |-> IF v >= SupportMinithumbnails THEN DocumentFields(d) ELSE OldDocumentFields(d)]

-----------------------------------------------------------------------------
(* Plausible bugs, each replacing one definition below in a mutation check *)

\* The version test off by one: records of exactly SupportMinithumbnails
\* are read without their minithumbnail.
ReadKindsOffByOne(v) ==
    IF v > SupportMinithumbnails
    THEN <<"string", "string", "string", "photo", "file">>
    ELSE <<"string", "string", "photo", "file">>

\* The minithumbnail read from the third field whatever the version, with
\* the field kinds left unchecked.
ParsedDocumentMiniAlways(rec) ==
    LET m == IF rec.version >= SupportMinithumbnails THEN 1 ELSE 0
        f == rec.fields
    IN  IF f[4 + m].val = NoFile
        THEN NoFile
        ELSE [fileName |-> f[1].val, mimeType |-> f[2].val, minithumbnail |-> f[3].val,
              thumbnail |-> f[3 + m].val, fileId |-> f[4 + m].val]

-----------------------------------------------------------------------------
(* parse_document *)

\* The kinds of the fields parse_document reads, in order, from a record of
\* version v: the minithumbnail only from SupportMinithumbnails on.
ReadKinds(v) ==
    IF v >= SupportMinithumbnails
    THEN <<"string", "string", "string", "photo", "file">>
    ELSE <<"string", "string", "photo", "file">>

\* parser.get_error(): a read past the end or of a field of another kind.
ParseError(rec) ==
    LET kinds == ReadKinds(rec.version)
    IN  \/ Len(rec.fields) < Len(kinds)
        \/ \E i \in 1..Len(kinds) : rec.fields[i].kind # kinds[i]

\* The document parse_document builds from a record, or NoFile when the
\* parser failed or the file id is invalid.
ParsedDocument(rec) ==
    LET m == Len(ReadKinds(rec.version)) - 4
        f == rec.fields
    IN  IF ParseError(rec) \/ f[4 + m].val = NoFile
        THEN NoFile
        ELSE [fileName |-> f[1].val, mimeType |-> f[2].val,
              minithumbnail |-> IF m = 1 THEN f[3].val ELSE NoMinithumbnail,
              thumbnail |-> f[3 + m].val, fileId |-> f[4 + m].val]

\* on_get_document(std::move(document), false): the first writer wins.
LoadDocument(d) ==
    documents' = IF documents[d.fileId] = Absent
                 THEN [documents EXCEPT ![d.fileId] = d]
                 ELSE documents

-----------------------------------------------------------------------------
(* Initial state: an empty cache; records left by older binaries *)

Init ==
    /\ documents = [f \in FileIds |-> Absent]
    /\ stored \in [Slots -> {Empty} \cup Documents]
    /\ \E v \in [Slots -> OldVersions] :
           \* a binary without minithumbnails had none to store
           /\ \A s \in Slots : stored[s] # Empty /\ v[s] < SupportMinithumbnails
                                 => stored[s].minithumbnail = NoMinithumbnail
           /\ db = [s \in Slots |-> IF stored[s] = Empty THEN Empty ELSE RecordOf(stored[s], v[s])]
    /\ parsed = NoParse
    /\ restarts = 0

-----------------------------------------------------------------------------
(* Actions *)

\* The server sends a document (on_get_document with replace = true or
\* false, as the caller asks).
OnGetDocument(d, replace) ==
    /\ documents' = IF documents[d.fileId] = Absent \/ replace
                    THEN [documents EXCEPT ![d.fileId] = d]
                    ELSE documents
    /\ UNCHANGED <<db, stored, parsed, restarts>>

\* store_document(file_id, storer): the CHECK that the document is cached
\* holds, since a caller stores only a document it got from the cache.
StoreDocument(f, s) ==
    /\ documents[f] # Absent
    /\ db' = [db EXCEPT ![s] = RecordOf(documents[f], CurrentVersion)]
    /\ stored' = [stored EXCEPT ![s] = documents[f]]
    /\ UNCHANGED <<documents, parsed, restarts>>

\* parse_document(parser) of a record, with the record's version.
ParseDocument(s) ==
    /\ db[s] # Empty
    /\ LET d == ParsedDocument(db[s])
       IN  /\ IF d = NoFile THEN UNCHANGED documents ELSE LoadDocument(d)
           /\ parsed' = [written |-> stored[s], result |-> d]
    /\ UNCHANGED <<db, stored, restarts>>

\* The process restarts: the cache is lost, the database is kept.
Restart ==
    /\ restarts < MaxRestarts
    /\ documents' = [f \in FileIds |-> Absent]
    /\ parsed' = NoParse
    /\ restarts' = restarts + 1
    /\ UNCHANGED <<db, stored>>

Next ==
    \/ \E d \in Documents, replace \in BOOLEAN : OnGetDocument(d, replace)
    \/ \E f \in FileIds, s \in Slots : StoreDocument(f, s)
    \/ \E s \in Slots : ParseDocument(s)
    \/ Restart

Spec == Init /\ [][Next]_vars

-----------------------------------------------------------------------------
(* Properties *)

TypeOK ==
    /\ documents \in [FileIds -> Documents \cup {Absent}]
    /\ db \in [Slots -> Records \cup {Empty}]
    /\ stored \in [Slots -> Documents \cup {Empty}]
    /\ parsed \in [written : Documents, result : Documents \cup {NoFile}] \cup {NoParse}
    /\ restarts \in 0..MaxRestarts

\* A stored document comes back as it was written: parse_document of a
\* record, written by this binary or an older one, gives the document that
\* store_document (or the older binary) wrote, never a document with its
\* fields shifted by a version mismatch, and never FileId().
ParsedAsStored ==
    parsed # NoParse => parsed.result = parsed.written

=============================================================================
