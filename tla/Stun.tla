-------------------------------- MODULE Stun --------------------------------
(***************************************************************************)
(* STUN messages as the ICE agent reads and writes them (wroom-edge/src/   *)
(* ice.rs Message and MessageBuilder).  A datagram is a header, attributes *)
(* in wire order with their lengths in bytes, and the number of bytes that *)
(* arrived.  Digests are ideal: the HMAC and the checksum are records of   *)
(* all they cover, the length field included, which writer and reader      *)
(* patch before they compute either.                                       *)
(***************************************************************************)
EXTENDS Integers, Sequences, SequencesExt

HeaderLen == 20
MaxUnknown == 16          \* MAX_UNKNOWN_ATTRS
MaxResponseLen == 256     \* MAX_RESPONSE_LEN
Nil == [none |-> TRUE]
NoKey == 0

\* Types below 0x8000 need comprehension; KNOWN_ATTRS has all but the strange.
Strange == {"strange", "stranger"}
Required == Strange \cup {"username", "integrity", "error", "unknown", "mapped", "realm",
                          "nonce", "xor-mapped", "priority", "use-candidate"}
KnownAttrs == (Required \ Strange) \cup {"software", "fingerprint", "controlled", "controlling"}

Pad4(n) == ((n + 3) \div 4) * 4
Attr(type, len, value) == [type |-> type, len |-> len, value |-> value]
SizeOf(attrs) ==
  LET upto[i \in 0 .. Len(attrs)] == IF i = 0 THEN 0 ELSE upto[i - 1] + 4 + Pad4(attrs[i].len)
  IN  upto[Len(attrs)]

-----------------------------------------------------------------------------
(* Reading *)

\* Message::parse: what was declared has arrived, and attributes fill it
\* exactly; bytes after it are ignored.
Parse(d) ==
  LET fill == {k \in 0 .. Len(d.attrs) : SizeOf(SubSeq(d.attrs, 1, k)) = d.declared}
  IN  IF \/ d.bytes < HeaderLen \/ d.first # "stun" \/ d.declared % 4 # 0 \/ ~d.cookie
         \/ d.bytes < HeaderLen + d.declared
         \/ fill = {}
      THEN Nil
      ELSE [none |-> FALSE, class |-> d.class, tid |-> d.tid, declared |-> d.declared,
            attrs |-> SubSeq(d.attrs, 1, CHOOSE k \in fill : TRUE)]

\* Message::get: the first attribute of a type, 0 when there is none.
Has(m, type) == \E i \in DOMAIN m.attrs : m.attrs[i].type = type
IndexOf(m, type) ==
  LET at == {i \in DOMAIN m.attrs : m.attrs[i].type = type}
  IN  IF at = {} THEN 0 ELSE CHOOSE i \in at : \A j \in at : i <= j
ValueOf(m, type) == IF Has(m, type) THEN m.attrs[IndexOf(m, type)].value ELSE Nil
LenOf(m, type) == m.attrs[IndexOf(m, type)].len

\* Message::ice_role: of two claims the controlled one counts, and a value
\* that is not eight bytes long is no claim.
IceRole(m) ==
  IF Has(m, "controlled") THEN IF LenOf(m, "controlled") = 8 THEN "controlled" ELSE "none"
  ELSE IF Has(m, "controlling") /\ LenOf(m, "controlling") = 8 THEN "controlling" ELSE "none"

\* The HMAC covers the header, with the length of a message that ends with the
\* attribute, and the attributes before it.
Hmac(key, m, before) ==
  [key |-> key, class |-> m.class, tid |-> m.tid, len |-> SizeOf(before) + 24, over |-> before]

Checksum(m, len, before) == [class |-> m.class, tid |-> m.tid, len |-> len, over |-> before]

Before(m, type) == SubSeq(m.attrs, 1, IndexOf(m, type) - 1)

\* verify_message_integrity.
IntegrityHolds(m, key) ==
  /\ Has(m, "integrity")
  /\ LenOf(m, "integrity") = 20
  /\ ValueOf(m, "integrity") = Hmac(key, m, Before(m, "integrity"))

\* fingerprint_valid: absent, or last and right.
FingerprintValid(m) ==
  Has(m, "fingerprint") =>
    /\ LenOf(m, "fingerprint") = 4
    /\ IndexOf(m, "fingerprint") = Len(m.attrs)
    /\ ValueOf(m, "fingerprint") = Checksum(m, m.declared, Before(m, "fingerprint"))

\* Addresses are XORed with the cookie, those of IPv6 with the transaction too.
Xor(addr, tid) == [addr |-> addr, mask |-> IF addr.v6 THEN <<"cookie", tid>> ELSE <<"cookie">>]

XorMapped(m) ==
  LET x == ValueOf(m, "xor-mapped")
  IN  IF x # Nil /\ Xor(x.addr, m.tid) = x THEN x.addr ELSE Nil

\* The unknown attributes that need comprehension, as many as are echoed.
UnknownIn(m) ==
  LET all == SelectSeq(m.attrs, LAMBDA a : a.type \in Required /\ a.type \notin KnownAttrs)
  IN  SubSeq(all, 1, IF Len(all) < MaxUnknown THEN Len(all) ELSE MaxUnknown)

-----------------------------------------------------------------------------
(* Writing *)

MappedAttr(addr, tid) == Attr("xor-mapped", IF addr.v6 THEN 20 ELSE 8, Xor(addr, tid))
ErrorAttr(code, len) == Attr("error", 4 + len, code)
UnknownAttr(types) == Attr("unknown", 2 * Len(types), types)
Software == Attr("software", 11, Nil)

\* Fault: the HMAC is computed before the length field is patched.
SignedUnpatched(class, tid, attrs, key) ==
  LET digest == Hmac(key, [class |-> class, tid |-> tid], attrs)
  IN  Append(attrs, Attr("integrity", 20, [digest EXCEPT !.len = SizeOf(attrs)]))

\* MessageBuilder::message_integrity.
Signed(class, tid, attrs, key) ==
  Append(attrs, Attr("integrity", 20, Hmac(key, [class |-> class, tid |-> tid], attrs)))

\* MessageBuilder::fingerprint.
Marked(class, tid, attrs) ==
  LET sum == Checksum([class |-> class, tid |-> tid], SizeOf(attrs) + 8, attrs)
  IN  Append(attrs, Attr("fingerprint", 4, sum))

\* MessageBuilder from new to finish: the attributes, signed with a key or
\* not, and the fingerprint; none when they do not fit the buffer.
Message(class, tid, attrs, key, room) ==
  LET all == Marked(class, tid, IF key = NoKey THEN attrs ELSE Signed(class, tid, attrs, key))
  IN  IF HeaderLen + SizeOf(all) > room THEN Nil
      ELSE [none |-> FALSE, first |-> "stun", cookie |-> TRUE, class |-> class, tid |-> tid,
            declared |-> SizeOf(all), bytes |-> HeaderLen + SizeOf(all), attrs |-> all]
=============================================================================
