------------------------------- MODULE Hpack -------------------------------
(***************************************************************************)
(* An HPACK Encoder (http2/hpack/encode.go) and the peer's Decoder         *)
(* (http2/hpack/hpack.go), joined by a stream of header blocks.            *)
(*                                                                         *)
(* The stream carries representations: a table index, a literal, a table   *)
(* size update.  Every representation is passed to the Decoder by a call   *)
(* of Write of its own (header blocks may be fragmented anywhere), in the  *)
(* order it was sent, any time later.  The Decoder keeps no error: Write   *)
(* returns it to the caller.  Here it is remembered in rejected (and so is *)
(* one that parseHeaderFieldRepr drops), and the caller goes on with the   *)
(* next fragment, so that the tables can be compared whatever Write        *)
(* returned.                                                               *)
(***************************************************************************)
EXTENDS HeaderTable

CONSTANTS
  Static,       \* staticTable
  InitialSize,  \* initialHeaderTableSize (4096)
  Sizes,        \* the table sizes the peers' settings ask for
  Unset,        \* uint32Max: above every table size
  Allowed,      \* the decoder's allowedMaxSize
  Sent,         \* the fields the encoder's user writes
  NoField,      \* no field yet
  NoName,       \* the name of a literal that refers to its name by index
  MaxFields,    \* bound on the number of fields written
  MaxResizes    \* bound on the number of changes of the table size

\* static_table.go lists the entries and both maps.
ASSUME StaticAssumption ==
  /\ Static \in Tables /\ Static.evictCount = 0
  /\ NewestByName(Static) /\ NewestByPair(Static)
ASSUME SizesAssumption ==
  /\ InitialSize \in Nat /\ Sizes \subseteq Nat /\ Unset \in Nat /\ Allowed \in Nat
  /\ \A v \in Sizes \cup {InitialSize} : v < Unset
  /\ MaxFields \in Nat /\ MaxResizes \in Nat \ {0}
ASSUME SentAssumption == Sent \subseteq Fields
\* A peer's settings never ask for more than its decoder allows, nor does the
\* size its decoder starts with (NewDecoder sets both to the same value).
ASSUME AllowedAssumption == \A v \in Sizes \cup {InitialSize} : v <= Allowed

VARIABLES
  enc,              \* Encoder.dynTab
  minSize,          \* Encoder.minSize
  maxSizeLimit,     \* Encoder.maxSizeLimit
  tableSizeUpdate,  \* Encoder.tableSizeUpdate
  inBlock,          \* the encoder is in the middle of a header block
  stream,           \* representations sent and not yet decoded
  fields,           \* number of fields passed to WriteField
  resizes,          \* number of changes of the table size
  dec,              \* Decoder.dynTab
  firstField,       \* Decoder.firstField
  emitted,          \* the field last passed to emit
  meant,            \* the field WriteField encoded as what was then decoded
  rejected          \* the decoding errors met, by what they are about

encoder == <<enc, minSize, maxSizeLimit, tableSizeUpdate, inBlock, fields, resizes>>
decoder == <<dec, firstField, emitted, meant, rejected>>
vars == <<encoder, stream, decoder>>

\* "Incremental Indexing", "Without Indexing" and "Never Indexed".
IndexTypes == {"indexedTrue", "indexedFalse", "indexedNever"}

\* A representation of field f carries f along, for the properties only.
Indexed(i, f) == [kind |-> "indexed", idx |-> i, of |-> f]
\* A literal names its field by an index, or by a string when idx is 0.
Literal(it, i, f) ==
  [kind |-> "literal", it |-> it, idx |-> i,
   name |-> IF i = 0 THEN f.name ELSE NoName, value |-> f.value, of |-> f]
SizeUpdate(v) == [kind |-> "size", size |-> v]
EndOfBlock == [kind |-> "end"]

Init ==
  /\ enc = NewTable(InitialSize)
  /\ minSize = Unset
  /\ maxSizeLimit = InitialSize
  /\ tableSizeUpdate = FALSE
  /\ inBlock = FALSE
  /\ stream = <<>> /\ fields = 0 /\ resizes = 0
  /\ dec = NewTable(InitialSize)
  /\ firstField = TRUE
  /\ emitted = NoField /\ meant = NoField /\ rejected = {}

-----------------------------------------------------------------------------
(* Encoder *)

\* The static table wins, except that the dynamic table is asked for what the
\* static one matches by name at best.
searchTable(f) ==
  LET s == search(Static, f, TRUE)
      d == search(enc, f, FALSE)
  IN  IF ~s.match /\ (d.match \/ (s.i = 0 /\ d.i # 0))
        THEN [i |-> d.i + Len(Static.ents), match |-> d.match]
        ELSE s

shouldIndex(f) == ~f.sensitive /\ Size(f) <= enc.maxSize

\* encodeTypeByte.
TypeOf(f) ==
  IF f.sensitive THEN "indexedNever"
  ELSE IF shouldIndex(f) THEN "indexedTrue" ELSE "indexedFalse"

\* Mutant: only the final size is sent.
SizeUpdatesFinalOnly ==
  IF tableSizeUpdate THEN <<SizeUpdate(enc.maxSize)>> ELSE <<>>

\* The size updates that precede the next field: the smallest size set since
\* the last update, if the size has grown again, then the current one.
SizeUpdates ==
  IF ~tableSizeUpdate THEN <<>>
  ELSE (IF minSize < enc.maxSize THEN <<SizeUpdate(minSize)>> ELSE <<>>)
       \o <<SizeUpdate(enc.maxSize)>>

WriteField(f) ==
  /\ fields < MaxFields
  /\ LET found == searchTable(f)
     IN  \/ /\ found.match
            /\ stream' = stream \o SizeUpdates \o <<Indexed(found.i, f)>>
            /\ UNCHANGED enc
         \/ /\ ~found.match
            /\ stream' = stream \o SizeUpdates \o <<Literal(TypeOf(f), found.i, f)>>
            /\ enc' = IF shouldIndex(f) THEN add(enc, f) ELSE enc
  /\ minSize' = IF tableSizeUpdate THEN Unset ELSE minSize
  /\ tableSizeUpdate' = FALSE
  /\ inBlock' = TRUE
  /\ fields' = fields + 1
  /\ UNCHANGED <<maxSizeLimit, resizes, decoder>>

\* The last field of a header block was written.
EndBlock ==
  /\ inBlock
  /\ inBlock' = FALSE
  /\ stream' = Append(stream, EndOfBlock)
  /\ UNCHANGED <<enc, minSize, maxSizeLimit, tableSizeUpdate, fields, resizes, decoder>>

\* A SETTINGS_HEADER_TABLE_SIZE of the peer, between two header blocks.
SetMaxDynamicTableSize(v) ==
  /\ ~inBlock /\ resizes < MaxResizes
  /\ LET w == IF v > maxSizeLimit THEN maxSizeLimit ELSE v
     IN  /\ minSize' = IF w < minSize THEN w ELSE minSize
         /\ enc' = setMaxSize(enc, w)
  /\ tableSizeUpdate' = TRUE
  /\ resizes' = resizes + 1
  /\ UNCHANGED <<maxSizeLimit, inBlock, stream, fields, decoder>>

\* Called once, when the connection is established.
SetMaxDynamicTableSizeLimit(v) ==
  /\ fields = 0 /\ resizes = 0
  /\ maxSizeLimit' = v
  /\ resizes' = resizes + 1
  /\ \/ /\ enc.maxSize > v
        /\ tableSizeUpdate' = TRUE
        /\ enc' = setMaxSize(enc, v)
     \/ /\ enc.maxSize <= v
        /\ UNCHANGED <<tableSizeUpdate, enc>>
  /\ UNCHANGED <<minSize, inBlock, stream, fields, decoder>>

-----------------------------------------------------------------------------
(* Decoder *)

maxTableIndex == Len(dec.ents) + Len(Static.ents)

\* Mutant: the dynamic table is read oldest entry first.
AtOldestFirst(i) ==
  IF i <= Len(Static.ents) THEN Static.ents[i] ELSE dec.ents[i - Len(Static.ents)]

\* at, for an index that exists: static entries first, then the dynamic
\* ones, newest first.
at(i) ==
  IF i <= Len(Static.ents) THEN Static.ents[i]
  ELSE dec.ents[(Len(dec.ents) - (i - Len(Static.ents))) + 1]

Known(i) == i \in 1 .. maxTableIndex

\* callEmit of the field decoded from r.
Emit(r, f) == emitted' = f /\ meant' = r.of
NoEmit == UNCHANGED <<emitted, meant>>
Reject(what) == rejected' = rejected \cup {what}

\* parseFieldIndexed.
parseFieldIndexed(r) ==
  /\ r.kind = "indexed"
  /\ \/ /\ Known(r.idx)
        /\ Emit(r, [at(r.idx) EXCEPT !.sensitive = FALSE])
        /\ UNCHANGED rejected
     \/ /\ ~Known(r.idx)
        /\ Reject("invalid index")
        /\ NoEmit
  /\ UNCHANGED dec

\* parseHeaderFieldRepr: the case for incremental indexing does not return
\* what parseFieldLiteral returned, and falls through to this error.
Overriding(r) == IF r.it = "indexedTrue" THEN {"invalid encoding"} ELSE {}

\* parseFieldLiteral: a field to be indexed is added before it is emitted.
parseFieldLiteral(r) ==
  /\ r.kind = "literal"
  /\ \/ /\ r.idx > 0 /\ ~Known(r.idx)
        /\ rejected' = rejected \cup {"invalid index"} \cup Overriding(r)
        /\ UNCHANGED dec /\ NoEmit
     \/ /\ r.idx = 0 \/ Known(r.idx)
        /\ rejected' = rejected \cup Overriding(r)
        /\ LET f == [name |-> IF r.idx = 0 THEN r.name ELSE at(r.idx).name,
                     value |-> r.value, sensitive |-> FALSE]
           IN  /\ dec' = IF r.it = "indexedTrue" THEN add(dec, f) ELSE dec
               /\ Emit(r, [f EXCEPT !.sensitive = (r.it = "indexedNever")])

\* parseDynamicTableSizeUpdate.
parseDynamicTableSizeUpdate(r) ==
  /\ r.kind = "size"
  /\ \/ /\ ~firstField /\ dec.size > 0
        /\ Reject("size update not at the beginning")
        /\ UNCHANGED dec
     \/ /\ firstField \/ dec.size <= 0
        /\ r.size > Allowed
        /\ Reject("size update too large")
        /\ UNCHANGED dec
     \/ /\ firstField \/ dec.size <= 0
        /\ r.size <= Allowed
        /\ dec' = setMaxSize(dec, r.size)
        /\ UNCHANGED rejected
  /\ NoEmit

\* Write of one representation.
Write ==
  /\ stream # <<>> /\ Head(stream).kind # "end"
  /\ \/ parseFieldIndexed(Head(stream))
     \/ parseFieldLiteral(Head(stream))
     \/ parseDynamicTableSizeUpdate(Head(stream))
  /\ firstField' = FALSE
  /\ stream' = Tail(stream)
  /\ UNCHANGED encoder

\* Close, at the end of a header block.
Close ==
  /\ stream # <<>> /\ Head(stream).kind = "end"
  /\ firstField' = TRUE
  /\ stream' = Tail(stream)
  /\ UNCHANGED <<encoder, dec, emitted, meant, rejected>>

-----------------------------------------------------------------------------
Next ==
  \/ \E f \in Sent : WriteField(f)
  \/ EndBlock
  \/ \E v \in Sizes : SetMaxDynamicTableSize(v)
  \/ \E v \in Sizes : SetMaxDynamicTableSizeLimit(v)
  \/ Write
  \/ Close

Spec == Init /\ [][Next]_vars

-----------------------------------------------------------------------------
Representations ==
  [kind : {"indexed"}, idx : Nat, of : Fields]
    \cup [kind : {"literal"}, it : IndexTypes, idx : Nat,
          name : Names \cup {NoName}, value : Values, of : Fields]
    \cup [kind : {"size"}, size : Nat]
    \cup [kind : {"end"}]

TypeOK ==
  /\ enc \in Tables /\ dec \in Tables
  /\ minSize \in Nat /\ maxSizeLimit \in Nat
  /\ tableSizeUpdate \in BOOLEAN /\ inBlock \in BOOLEAN /\ firstField \in BOOLEAN
  /\ stream \in Seq(Representations)
  /\ fields \in 0 .. MaxFields
  /\ emitted \in Fields \cup {NoField} /\ meant \in Fields \cup {NoField}
  /\ resizes \in 0 .. MaxResizes

\* addEntry and evictOldest keep byName and byNameValue of both tables
\* pointing at the newest entry with that name, or name and value, that is
\* still in the table, and at nothing once the last one is evicted.  So
\* idToIndex never meets an evicted id and does not panic.
MapsNewest ==
  /\ NewestByName(enc) /\ NewestByPair(enc)
  /\ NewestByName(dec) /\ NewestByPair(dec)

\* The decoder's user gets the field the encoder's user wrote, with its
\* sensitivity, however far the decoder lags behind the changes the encoder
\* has made to its table since: no index is unknown or means another entry.
FieldsSurvive == emitted = meant /\ "invalid index" \notin rejected

\* Once the decoder has seen everything and no size update is pending, both
\* tables hold the same entries and account the same size for them: the
\* updates WriteField sends reproduce every eviction the encoder made,
\* although several changes of the size are folded into two updates.
TablesAgree ==
  stream = <<>> /\ ~tableSizeUpdate =>
    dec.ents = enc.ents /\ dec.size = enc.size

\* The size a table accounts for is that of its entries, so evict never
\* takes the unsigned size below zero.
SizeAccounted ==
  \A t \in {enc, dec} :
    t.size = SizeWithout([t EXCEPT !.size = 0])[Len(t.ents)] * (-1)

\* hpack.go, dynamicTable: "the dynamic table size is strictly bounded".
TablesBounded == enc.size <= enc.maxSize /\ dec.size <= dec.maxSize
=============================================================================
