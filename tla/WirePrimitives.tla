--------------------------- MODULE WirePrimitives ---------------------------
(***************************************************************************)
(* Byte-level building blocks of the iggy wire protocol.                  *)
(*                                                                         *)
(* A byte buffer is a TLA+ sequence of naturals.  Rust's half-open,        *)
(* 0-based slices bytes[lo..hi] are RSlice(b, lo, hi); a slice whose end   *)
(* lies past the buffer panics in Rust (both for &[u8] indexing and for    *)
(* Bytes::slice), which the model makes an explicit outcome, Panic.        *)
(*                                                                         *)
(* Identifier and the header map (HashMap<HeaderKey, HeaderValue>) are     *)
(* primitives whose code is not part of the sources at hand; their codecs  *)
(* are modelled from spec.md sections 3, 4.2 and 4.3.                      *)
(***************************************************************************)
EXTENDS Integers, Sequences, SequencesExt, TLC

\* Rust's Option::None (a model value).
CONSTANT None

\* Outcome of a fallible Rust call: Ok(v), Err(e), or a panic.
Ok(v)  == [tag |-> "ok", val |-> v]
Err(e) == [tag |-> "err", err |-> e]
Panic  == [tag |-> "panic"]
IsOk(r) == r.tag = "ok"
\* No call made yet.
NoResult == [tag |-> "none"]

\* Rust bytes[lo..hi] and bytes.slice(lo..hi), in bounds.
RSlice(b, lo, hi) == SubSeq(b, lo + 1, hi)
\* The range lo..hi is inside b; otherwise the slice panics.
InBounds(b, lo, hi) == lo <= hi /\ hi <= Len(b)
\* Rust bytes.slice(pos..).
RestFrom(b, pos) == SubSeq(b, pos + 1, Len(b))

\* to_le_bytes / put_uN_le of a w-byte unsigned integer.
RECURSIVE LE(_, _)
LE(n, w) == IF w = 0 THEN <<>> ELSE <<n % 256>> \o LE(n \div 256, w - 1)

\* from_le_bytes of a byte sequence (Horner form, least significant first).
RECURSIVE FromLE(_)
FromLE(s) == IF s = <<>> THEN 0 ELSE Head(s) + 256 * FromLE(Tail(s))

\* u32::from_le_bytes(bytes[lo..lo + 4]).
U32At(b, lo) == FromLE(RSlice(b, lo, lo + 4))

\* u128::from_le_bytes of 16 bytes.  Message ids in the model are below
\* 2^32; an id with a non-zero byte above the fourth is some id >= 2^32,
\* represented by -1, which differs from every id the model sends.
U128FromLE(s) ==
    IF \A i \in 5..16 : s[i] = 0 THEN FromLE(SubSeq(s, 1, 4)) ELSE -1

----------------------------------------------------------------------------
(***************************************************************************)
(* Identifier (spec.md 3, 4.2): kind byte (1 numeric, 2 named), length     *)
(* byte, value bytes.                                                      *)
(***************************************************************************)
IdKindCode == [numeric |-> 1, string |-> 2]

IdentifierNumeric(n) == [kind |-> "numeric", length |-> 4, value |-> LE(n, 4)]

IdentifierNamed(s) == [kind |-> "string", length |-> Len(s), value |-> s]

IdentifierAsBytes(id) == <<IdKindCode[id.kind], id.length>> \o id.value

IdentifierSizeBytes(id) == 2 + id.length

\* Parse fails on a short buffer, an unknown kind or a length that runs
\* past the buffer; a parsed identifier is then validated.
IdentifierFromBytes(b) ==
    IF Len(b) < 3 \/ b[1] \notin {1, 2} \/ 2 + b[2] > Len(b)
    THEN Err("InvalidCommand")
    ELSE LET kind == IF b[1] = 1 THEN "numeric" ELSE "string"
             id   == [kind |-> kind, length |-> b[2], value |-> RSlice(b, 2, 2 + b[2])]
         IN  IF (kind = "numeric" /\ id.length # 4) \/ id.length = 0
             THEN Err("InvalidIdentifier")
             ELSE Ok(id)

----------------------------------------------------------------------------
(***************************************************************************)
(* Header map (spec.md 3, 4.3).  A map is a function from key bytes to     *)
(* [kind, value]; each entry is serialized as u32 key length, key bytes,   *)
(* kind byte, u32 value length, value bytes, with no entry count.  The     *)
(* model's header values are of kind raw (code 1).                         *)
(***************************************************************************)
HeaderKindCode == [raw |-> 1]

HeaderEntryBytes(k, v) ==
    LE(Len(k), 4) \o k \o <<HeaderKindCode[v.kind]>> \o LE(Len(v.value), 4) \o v.value

\* An empty map serializes to no bytes.  HashMap iteration order is
\* unspecified; SetToSeq fixes one order.
HeadersAsBytes(h) ==
    LET keys == SetToSeq(DOMAIN h)
    IN  FoldLeft(LAMBDA acc, k : acc \o HeaderEntryBytes(k, h[k]), <<>>, keys)

\* header::get_headers_size_bytes: the u32 length field plus every entry.
HeadersSizeBytes(headers) ==
    IF headers = None THEN 4 ELSE 4 + Len(HeadersAsBytes(headers))

\* Parse consumes the buffer exhaustively; a short or inconsistent entry is
\* InvalidHeaderKey / InvalidHeaderValue, an unknown kind InvalidCommand.
RECURSIVE HeadersFromBytes(_, _)
HeadersFromBytes(b, acc) ==
    IF b = <<>> THEN Ok(acc)
    ELSE IF Len(b) < 4 THEN Err("InvalidHeaderKey")
    ELSE LET kl == U32At(b, 0) IN
         IF kl = 0 \/ kl > 255 \/ Len(b) < 4 + kl + 5 THEN Err("InvalidHeaderKey")
         ELSE LET key == RSlice(b, 4, 4 + kl)
                  at  == 4 + kl
                  vl  == U32At(b, at + 1)
              IN  IF b[at + 1] # HeaderKindCode.raw THEN Err("InvalidCommand")
                  ELSE IF vl = 0 \/ Len(b) < at + 5 + vl THEN Err("InvalidHeaderValue")
                  ELSE HeadersFromBytes(RestFrom(b, at + 5 + vl),
                         (key :> [kind |-> "raw", value |-> RSlice(b, at + 5, at + 5 + vl)]) @@ acc)

=============================================================================
