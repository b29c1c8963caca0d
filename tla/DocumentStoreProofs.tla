------------------------- MODULE DocumentStoreProofs -------------------------
(***************************************************************************)
(* Proofs about DocumentStore for every set of file ids, records and       *)
(* versions: parse_document returns what store_document wrote, at the      *)
(* current version and at every older one, and a parse never replaces a    *)
(* cached document.                                                        *)
(***************************************************************************)
EXTENDS DocumentStore, TLAPS



\* A record of a database slot holds the document it was written from, in
\* the layout of the version it was written with; a version without
\* minithumbnails had none to write.
DbMatches ==
    \A s \in Slots :
        \/ db[s] = Empty /\ stored[s] = Empty
        \/ /\ stored[s] \in Documents
           /\ \E v \in Nat : /\ db[s] = RecordOf(stored[s], v)
                             /\ v < SupportMinithumbnails => stored[s].minithumbnail = NoMinithumbnail

\* The inductive invariant.
IInv == TypeOK /\ DbMatches /\ ParsedAsStored

-----------------------------------------------------------------------------

\* The round trip: parse_document of what store_document wrote, with the
\* version it was written with, is the document itself.
LEMMA RoundTrip ==
    ASSUME NEW d \in Documents, NEW v \in Nat,
           v < SupportMinithumbnails => d.minithumbnail = NoMinithumbnail
    PROVE  ParsedDocument(RecordOf(d, v)) = d
<1> DEFINE rec == RecordOf(d, v)
<1> USE DEF rec
<1>1. d = [fileName |-> d.fileName, mimeType |-> d.mimeType, minithumbnail |-> d.minithumbnail,
           thumbnail |-> d.thumbnail, fileId |-> d.fileId]
  BY DEF Documents
<1>2. d.fileId # NoFile
  BY ConstantsAssumption DEF Documents
<1>3. rec.version = v
  BY DEF RecordOf
<1>4. CASE v >= SupportMinithumbnails
  <2>1. rec.fields = DocumentFields(d)
    BY <1>4 DEF RecordOf
  <2>2. ReadKinds(rec.version) = <<"string", "string", "string", "photo", "file">>
    BY <1>3, <1>4 DEF ReadKinds
  <2>3. /\ Len(rec.fields) = 5
        /\ \A i \in 1..5 : rec.fields[i].kind = ReadKinds(rec.version)[i]
    BY <2>1, <2>2 DEF DocumentFields, Field
  <2>4. ~ParseError(rec)
    BY <2>2, <2>3 DEF ParseError
  <2>5. rec.fields[5].val # NoFile
    BY <1>2, <2>1 DEF DocumentFields, Field
  <2>6. ParsedDocument(rec) =
          [fileName |-> rec.fields[1].val, mimeType |-> rec.fields[2].val,
           minithumbnail |-> rec.fields[3].val, thumbnail |-> rec.fields[4].val,
           fileId |-> rec.fields[5].val]
    BY <2>2, <2>4, <2>5 DEF ParsedDocument
  <2> QED
    BY <1>1, <2>1, <2>6 DEF DocumentFields, Field
<1>5. CASE ~(v >= SupportMinithumbnails)
  <2>1. rec.fields = OldDocumentFields(d)
    BY <1>5 DEF RecordOf
  <2>2. ReadKinds(rec.version) = <<"string", "string", "photo", "file">>
    BY <1>3, <1>5 DEF ReadKinds
  <2>3. /\ Len(rec.fields) = 4
        /\ \A i \in 1..4 : rec.fields[i].kind = ReadKinds(rec.version)[i]
    BY <2>1, <2>2 DEF OldDocumentFields, Field
  <2>4. ~ParseError(rec)
    BY <2>2, <2>3 DEF ParseError
  <2>5. rec.fields[4].val # NoFile
    BY <1>2, <2>1 DEF OldDocumentFields, Field
  <2>6. ParsedDocument(rec) =
          [fileName |-> rec.fields[1].val, mimeType |-> rec.fields[2].val,
           minithumbnail |-> NoMinithumbnail, thumbnail |-> rec.fields[3].val,
           fileId |-> rec.fields[4].val]
    BY <2>2, <2>4, <2>5 DEF ParsedDocument
  <2>7. d.minithumbnail = NoMinithumbnail
    BY <1>5, ConstantsAssumption
  <2> QED
    BY <1>1, <2>1, <2>6, <2>7 DEF OldDocumentFields, Field
<1> QED
  BY <1>4, <1>5

\* store_document writes a well-formed record, at any version.
LEMMA RecordTyped ==
    ASSUME NEW d \in Documents, NEW v \in 0..CurrentVersion
    PROVE  RecordOf(d, v) \in Records
<1> DEFINE FieldSet == [kind : {"string", "photo", "file"},
                        val : Names \cup Minithumbnails \cup Thumbnails \cup FileIds]
<1>1. \A k \in {"string", "photo", "file"}, x \in Names \cup Minithumbnails \cup Thumbnails \cup FileIds :
         Field(k, x) \in FieldSet
  BY DEF Field, FieldSet
<1>2. DocumentFields(d) \in Seq(FieldSet)
  BY <1>1 DEF DocumentFields, Documents
<1>3. OldDocumentFields(d) \in Seq(FieldSet)
  BY <1>1 DEF OldDocumentFields, Documents
<1> QED
  BY <1>2, <1>3 DEF RecordOf, Records, FieldSet

LEMMA InitIInv == Init => IInv
<1> SUFFICES ASSUME Init PROVE IInv
  OBVIOUS
<1>1. PICK v \in [Slots -> OldVersions] :
         /\ \A s \in Slots : stored[s] # Empty /\ v[s] < SupportMinithumbnails
                              => stored[s].minithumbnail = NoMinithumbnail
         /\ db = [s \in Slots |-> IF stored[s] = Empty THEN Empty ELSE RecordOf(stored[s], v[s])]
  BY DEF Init
<1>2. TypeOK
  <2>1. \A s \in Slots : db[s] \in Records \cup {Empty}
    <3> SUFFICES ASSUME NEW s \in Slots, stored[s] # Empty
                 PROVE  RecordOf(stored[s], v[s]) \in Records
      BY <1>1
    <3>1. stored[s] \in Documents
      BY DEF Init
    <3>2. v[s] \in 0..CurrentVersion
      BY <1>1, ConstantsAssumption, Zenon
    <3> QED
      BY <3>1, <3>2, RecordTyped
  <2> QED
    BY <1>1, <2>1, ConstantsAssumption DEF Init, TypeOK
<1>3. DbMatches
  <2> SUFFICES ASSUME NEW s \in Slots, stored[s] # Empty
               PROVE  /\ stored[s] \in Documents
                      /\ \E w \in Nat : /\ db[s] = RecordOf(stored[s], w)
                                        /\ w < SupportMinithumbnails => stored[s].minithumbnail = NoMinithumbnail
    BY <1>1 DEF DbMatches
  <2>1. stored[s] \in Documents
    BY DEF Init
  <2>2. v[s] \in 0..CurrentVersion
    BY <1>1, ConstantsAssumption, Zenon
  <2>3. v[s] \in Nat
    BY <2>2, ConstantsAssumption
  <2> QED
    BY <1>1, <2>1, <2>3
<1>4. ParsedAsStored
  BY DEF Init, ParsedAsStored
<1> QED
  BY <1>2, <1>3, <1>4 DEF IInv

-----------------------------------------------------------------------------
(* Each action preserves IInv *)

LEMMA OnGetDocumentIInv ==
    ASSUME IInv, NEW d \in Documents, NEW replace \in BOOLEAN, OnGetDocument(d, replace)
    PROVE  IInv'
<1>1. TypeOK'
  BY DEF IInv, TypeOK, OnGetDocument, Documents
<1>2. DbMatches' /\ ParsedAsStored'
  BY DEF IInv, DbMatches, ParsedAsStored, OnGetDocument
<1> QED
  BY <1>1, <1>2 DEF IInv

LEMMA StoreDocumentIInv ==
    ASSUME IInv, NEW f \in FileIds, NEW s \in Slots, StoreDocument(f, s)
    PROVE  IInv'
<1>1. documents[f] \in Documents
  BY DEF StoreDocument, IInv, TypeOK
<1>2. RecordOf(documents[f], CurrentVersion) \in Records
  BY <1>1, RecordTyped, ConstantsAssumption
<1>5. TypeOK'
  BY <1>1, <1>2 DEF IInv, TypeOK, StoreDocument
<1>3. DbMatches'
  <2> SUFFICES ASSUME NEW t \in Slots
               PROVE  DbMatches!(t)'
    BY DEF DbMatches
  <2>1. CASE t = s
    <3>1. stored'[t] = documents[f] /\ db'[t] = RecordOf(documents[f], CurrentVersion)
      BY <2>1 DEF StoreDocument, IInv, TypeOK
    <3>2. ~(CurrentVersion < SupportMinithumbnails)
      BY ConstantsAssumption
    <3>3. CurrentVersion \in Nat
      BY ConstantsAssumption
    <3> QED
      BY <1>1, <3>1, <3>2, <3>3 DEF DbMatches
  <2>2. CASE t # s
    <3>1. stored'[t] = stored[t] /\ db'[t] = db[t]
      BY <2>2 DEF StoreDocument, IInv, TypeOK
    <3> QED
      BY <3>1 DEF IInv, DbMatches
  <2> QED
    BY <2>1, <2>2
<1>4. ParsedAsStored'
  BY DEF IInv, ParsedAsStored, StoreDocument
<1> QED
  BY <1>5, <1>3, <1>4 DEF IInv

LEMMA ParseDocumentIInv ==
    ASSUME IInv, NEW s \in Slots, ParseDocument(s)
    PROVE  IInv'
<1>1. /\ stored[s] \in Documents
      /\ \E v \in Nat : /\ db[s] = RecordOf(stored[s], v)
                        /\ v < SupportMinithumbnails => stored[s].minithumbnail = NoMinithumbnail
  BY DEF ParseDocument, IInv, DbMatches
<1>2. ParsedDocument(db[s]) = stored[s]
  BY <1>1, RoundTrip
<1>3. parsed' = [written |-> stored[s], result |-> stored[s]]
  BY <1>2 DEF ParseDocument
<1>4. documents' \in [FileIds -> Documents \cup {Absent}]
  <2>1. CASE stored[s] = NoFile
    BY <1>2, <2>1 DEF ParseDocument, IInv, TypeOK
  <2>2. CASE stored[s] # NoFile
    <3>1. LoadDocument(stored[s])
      BY <1>2, <2>2 DEF ParseDocument
    <3>2. stored[s].fileId \in FileIds
      BY <1>1 DEF Documents
    <3> QED
      BY <1>1, <3>1, <3>2 DEF LoadDocument, IInv, TypeOK
  <2> QED
    BY <2>1, <2>2
<1>5. TypeOK'
  BY <1>1, <1>3, <1>4 DEF IInv, TypeOK, ParseDocument
<1>6. DbMatches'
  BY DEF IInv, DbMatches, ParseDocument
<1>7. ParsedAsStored'
  BY <1>3 DEF ParsedAsStored
<1> QED
  BY <1>5, <1>6, <1>7 DEF IInv

LEMMA RestartIInv ==
    ASSUME IInv, Restart
    PROVE  IInv'
BY ConstantsAssumption DEF IInv, TypeOK, DbMatches, ParsedAsStored, Restart

LEMMA IInvStep == IInv /\ [Next]_vars => IInv'
<1> SUFFICES ASSUME IInv, [Next]_vars PROVE IInv'
  OBVIOUS
<1>1. CASE \E d \in Documents, replace \in BOOLEAN : OnGetDocument(d, replace)
  BY <1>1, OnGetDocumentIInv
<1>2. CASE \E f \in FileIds, s \in Slots : StoreDocument(f, s)
  BY <1>2, StoreDocumentIInv
<1>3. CASE \E s \in Slots : ParseDocument(s)
  BY <1>3, ParseDocumentIInv
<1>4. CASE Restart
  BY <1>4, RestartIInv
<1>5. CASE UNCHANGED vars
  BY <1>5 DEF vars, IInv, TypeOK, DbMatches, ParsedAsStored
<1> QED
  BY <1>1, <1>2, <1>3, <1>4, <1>5 DEF Next

-----------------------------------------------------------------------------

\* Every variable keeps the shape the actions give it: a record in the
\* database has a version this binary knows and fields of the three kinds
\* the parser reads, and the restart counter stays within its bound
\* (TypeOK).
THEOREM TypeCorrect == Spec => []TypeOK
<1>1. Spec => []IInv
  BY InitIInv, IInvStep, PTL DEF Spec
<1> QED
  BY <1>1, PTL DEF IInv

\* Every record of the database, written by this binary or by an older one,
\* parses back to the document it was written from (ParsedAsStored).
THEOREM RoundTripHolds == Spec => []ParsedAsStored
<1>1. Spec => []IInv
  BY InitIInv, IInvStep, PTL DEF Spec
<1> QED
  BY <1>1, PTL DEF IInv

=============================================================================
