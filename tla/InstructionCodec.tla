-------------------------- MODULE InstructionCodec --------------------------
(***************************************************************************)
(* The byte strings of the protocol, read and written twice: instructions  *)
(* by the program (instruction.rs) and by the SDK (instruction.ts, and     *)
(* ledger.ts for those it finds on chain), accounts by state.rs and        *)
(* processor.rs and by the SDK; and the list of accounts an instruction is *)
(* given, which three pieces of code index by position.                    *)
(*                                                                         *)
(* Widths are parameters: a byte has Base values, a key Key bytes.         *)
(***************************************************************************)
EXTENDS Split

CONSTANTS
  Base, Key, AmountBytes, BpsBytes,   \* 256, 32, 8 and 2 in the code
  MaxShares,
  Tags,                               \* the first bytes tried
  Longest                             \* the length of the longest string tried

ASSUME CodecAssumption ==
  /\ {Base, Key, AmountBytes, BpsBytes, MaxShares, Longest} \subseteq Nat \ {0}
  /\ MaxShares <= MAX_SHARES /\ Tags \subseteq Nat

Byte == 0..(Base - 1)

VARIABLE data   \* instruction data, or an account's

CodecInit == data \in {<<>>} \cup {<<tag>> : tag \in Tags}

Extend(byte) ==
  /\ data # <<>> /\ Len(data) < Longest
  /\ data' = Append(data, byte)

CodecNext == \E byte \in Byte : Extend(byte)

CodecSpec == CodecInit /\ [][CodecNext]_data

-----------------------------------------------------------------------------
(* Bytes                                                                   *)

Slice(bytes, from, length) == SubSeq(bytes, from, from + length - 1)

\* The most significant byte is the last.
LittleEndian(bytes) ==
  LET value[k \in 0..Len(bytes)] ==
        IF k = 0 THEN 0 ELSE value[k - 1] * Base + bytes[Len(bytes) - k + 1]
  IN value[Len(bytes)]

ToBytes(number, length) ==
  LET left[k \in 0..length] == IF k = 0 THEN number ELSE left[k - 1] \div Base
  IN [k \in 1..length |-> left[k - 1] % Base]

\* The largest number of some bytes: U64_MAX of eight.
Largest(length) == LittleEndian([k \in 1..length |-> Base - 1])

Flattened(parts) == \* the concatenation of byte strings of one length
  IF parts = <<>> THEN <<>>
  ELSE LET w == Len(parts[1])
       IN [k \in 1..(w * Len(parts)) |-> parts[((k - 1) \div w) + 1][((k - 1) % w) + 1]]

\* Pubkey::default: nobody signs for it.
ZeroKey == [k \in 1..Key |-> 0]

-----------------------------------------------------------------------------
(* Instructions                                                            *)

CREATE_NAMESPACE_TAG == 3
SET_NAMESPACE_AUTHORITY_TAG == 4
SETTLE_N_TAG == 5
SETTLE_TOKEN_N_TAG == 6
SettleTags == {SETTLE_N_TAG, SETTLE_TOKEN_N_TAG}

Refused == [tag |-> -1]

\* A token settlement names the mint's decimals before the share count.
DecimalsBytes(tag) == IF tag = SETTLE_TOKEN_N_TAG THEN 1 ELSE 0

\* The bytes before the list of bps, without the tag.
HeaderLength(tag) == Key + AmountBytes + DecimalsBytes(tag) + 1

Settlement(tag, event, amount, decimals, bps) ==
  [tag |-> tag, event |-> event, amount |-> amount, decimals |-> decimals, bps |-> bps]

\* Faulty variant of LengthOk: bytes after the last share are ignored.
LengthAtLeast(rest, tag, count) == Len(rest) >= HeaderLength(tag) + BpsBytes * count

LengthOk(rest, tag, count) == Len(rest) = HeaderLength(tag) + BpsBytes * count

BpsAt(bytes, from, count) ==
  [k \in 1..count |-> LittleEndian(Slice(bytes, from + BpsBytes * (k - 1), BpsBytes))]

\* SettlementInstruction::unpack of a settlement; `rest` follows the tag.
UnpackSettlement(tag, rest) ==
  LET header == HeaderLength(tag)
      count == rest[header]
  IN IF \/ Len(rest) < header
        \/ count \notin 1..MaxShares
        \/ ~LengthOk(rest, tag, count)
     THEN Refused
     ELSE Settlement(tag, Slice(rest, 1, Key),
                     LittleEndian(Slice(rest, Key + 1, AmountBytes)),
                     Slice(rest, Key + AmountBytes + 1, DecimalsBytes(tag)),
                     BpsAt(rest, header + 1, count))

Unpack(bytes) ==
  IF bytes = <<>> THEN Refused
  ELSE LET tag == bytes[1]
           rest == Tail(bytes)
       IN CASE tag = CREATE_NAMESPACE_TAG /\ Len(rest) = 2 * Key ->
                 [tag |-> tag, id |-> Slice(rest, 1, Key), authority |-> Slice(rest, Key + 1, Key)]
            [] tag = SET_NAMESPACE_AUTHORITY_TAG /\ Len(rest) = Key ->
                 [tag |-> tag, authority |-> rest]
            [] tag \in SettleTags -> UnpackSettlement(tag, rest)
            [] OTHER -> Refused

\* SettlementInstruction::pack
Pack(i) ==
  CASE i.tag = CREATE_NAMESPACE_TAG -> <<i.tag>> \o i.id \o i.authority
    [] i.tag = SET_NAMESPACE_AUTHORITY_TAG -> <<i.tag>> \o i.authority
    [] i.tag \in SettleTags ->
         <<i.tag>> \o i.event \o ToBytes(i.amount, AmountBytes) \o i.decimals
           \o <<Len(i.bps)>> \o Flattened([k \in 1..Len(i.bps) |-> ToBytes(i.bps[k], BpsBytes)])

\* What the processor refuses whatever the accounts are: the zero key as an
\* authority, a split that is none.
Executable(i) ==
  CASE i.tag \in SettleTags -> SplitVerdict(i.amount, i.bps) = "ok"
    [] i.tag \notin SettleTags -> i.authority # ZeroKey

\* The assertions of the SDK's encoders.
Encodable(i) ==
  CASE i.tag \in SettleTags ->
         /\ i.amount \in 1..Largest(AmountBytes)
         /\ SplitVerdict(i.amount, i.bps) = "ok" /\ Len(i.bps) <= MaxShares
    [] i.tag \notin SettleTags -> i.authority # ZeroKey

\* The SDK's encoders: every field has its offset in an array made beforehand.
EncodeCreateNamespace(i) ==
  [k \in 1..(1 + 2 * Key) |->
     CASE k = 1 -> i.tag
       [] k \in 2..(Key + 1) -> i.id[k - 1]
       [] OTHER -> i.authority[k - 1 - Key]]

EncodeSetNamespaceAuthority(i) ==
  [k \in 1..(1 + Key) |-> IF k = 1 THEN i.tag ELSE i.authority[k - 1]]

SettlementByte(i, header, k) ==
  CASE k = 1 -> i.tag
    [] k \in 2..(Key + 1) -> i.event[k - 1]
    [] k \in (Key + 2)..(Key + 1 + AmountBytes) -> ToBytes(i.amount, AmountBytes)[k - 1 - Key]
    [] k \in (Key + 2 + AmountBytes)..(header - 1) -> i.decimals[1]
    [] k = header -> Len(i.bps)
    [] k > header ->
         ToBytes(i.bps[((k - header - 1) \div BpsBytes) + 1], BpsBytes)
           [((k - header - 1) % BpsBytes) + 1]

EncodeSettlement(i) ==
  LET header == 1 + HeaderLength(i.tag)
  IN [k \in 1..(header + BpsBytes * Len(i.bps)) |-> SettlementByte(i, header, k)]

Encode(i) ==
  CASE i.tag = CREATE_NAMESPACE_TAG -> EncodeCreateNamespace(i)
    [] i.tag = SET_NAMESPACE_AUTHORITY_TAG -> EncodeSetNamespaceAuthority(i)
    [] i.tag \in SettleTags -> EncodeSettlement(i)

\* Faulty variant of CountAt: that of a native settlement.
CountOfNative(tag) == 2 + Key + AmountBytes

\* decodeSettleNData, decodeSettleTokenNData: where they find the share count.
CountAt(tag) == 1 + HeaderLength(tag)

DecodeSettlement(tag, bytes) ==
  LET header == 1 + HeaderLength(tag)
      count == bytes[CountAt(tag)]
  IN IF \/ Len(bytes) < header
        \/ bytes[1] # tag
        \/ count \notin 1..MaxShares
        \/ Len(bytes) # header + BpsBytes * count
     THEN Refused
     ELSE Settlement(tag, Slice(bytes, 2, Key),
                     LittleEndian(Slice(bytes, Key + 2, AmountBytes)),
                     Slice(bytes, Key + AmountBytes + 2, DecimalsBytes(tag)),
                     BpsAt(bytes, header + 1, count))

-----------------------------------------------------------------------------
(* Accounts of an instruction, by role                                     *)

Meta(role, signer, writable) == [role |-> role, signer |-> signer, writable |-> writable]

Recipients(n) == [k \in 1..n |-> Meta(<<"recipient", k>>, FALSE, TRUE)]

Signers == <<Meta(<<"payer">>, TRUE, TRUE), Meta(<<"authority">>, TRUE, FALSE),
             Meta(<<"namespace">>, FALSE, FALSE)>>
Record == Meta(<<"record">>, FALSE, TRUE)
SystemProgram == Meta(<<"system program">>, FALSE, FALSE)

\* Faulty variant of SettleTokenNKeys: the mint next to the source.
KeysMintFirst(n) ==
  Signers \o <<Meta(<<"source">>, FALSE, TRUE), Meta(<<"mint">>, FALSE, FALSE)>>
    \o Recipients(n) \o <<Record, SystemProgram, Meta(<<"token program">>, FALSE, FALSE)>>

\* buildSettleNInstruction and buildSettleTokenNInstruction, for n recipients.
SettleNKeys(n) == Signers \o Recipients(n) \o <<Record, SystemProgram>>
SettleTokenNKeys(n) ==
  Signers \o <<Meta(<<"source">>, FALSE, TRUE)>> \o Recipients(n)
    \o <<Meta(<<"mint">>, FALSE, FALSE), Record, SystemProgram,
         Meta(<<"token program">>, FALSE, FALSE)>>

\* buildCreateNamespaceInstruction, buildSetNamespaceAuthorityInstruction
CreateNamespaceKeys ==
  <<Meta(<<"payer">>, TRUE, TRUE), Meta(<<"creator">>, TRUE, FALSE),
    Meta(<<"namespace">>, FALSE, TRUE), SystemProgram>>
SetNamespaceAuthorityKeys ==
  <<Meta(<<"authority">>, TRUE, FALSE), Meta(<<"namespace">>, FALSE, TRUE),
    Meta(<<"new authority">>, TRUE, FALSE)>>

Keys(i) ==
  CASE i.tag = CREATE_NAMESPACE_TAG -> CreateNamespaceKeys
    [] i.tag = SET_NAMESPACE_AUTHORITY_TAG -> SetNamespaceAuthorityKeys
    [] i.tag = SETTLE_N_TAG -> SettleNKeys(Len(i.bps))
    [] i.tag = SETTLE_TOKEN_N_TAG -> SettleTokenNKeys(Len(i.bps))

Needs(at, role, signer, writable) == [at |-> at, needs |-> Meta(role, signer, writable)]

\* The index, from 0, where the processor looks for each role, and what it
\* demands of it: create_namespace, set_namespace_authority, settle, settle_token.
ProgramReads(i) ==
  LET n == IF i.tag \in SettleTags THEN Len(i.bps) ELSE 0
      first == IF i.tag = SETTLE_N_TAG THEN 3 ELSE 4
      settling ==
        {Needs(0, <<"payer">>, TRUE, TRUE), Needs(1, <<"authority">>, TRUE, FALSE),
         Needs(2, <<"namespace">>, FALSE, FALSE)}
          \cup {Needs(first + k - 1, <<"recipient", k>>, FALSE, TRUE) : k \in 1..n}
  IN CASE i.tag = CREATE_NAMESPACE_TAG ->
            {Needs(0, <<"payer">>, TRUE, TRUE), Needs(1, <<"creator">>, TRUE, FALSE),
             Needs(2, <<"namespace">>, FALSE, TRUE), Needs(3, <<"system program">>, FALSE, FALSE)}
       [] i.tag = SET_NAMESPACE_AUTHORITY_TAG ->
            {Needs(0, <<"authority">>, TRUE, FALSE), Needs(1, <<"namespace">>, FALSE, TRUE),
             Needs(2, <<"new authority">>, TRUE, FALSE)}
       [] i.tag = SETTLE_N_TAG ->
            settling \cup {Needs(3 + n, <<"record">>, FALSE, TRUE),
                           Needs(4 + n, <<"system program">>, FALSE, FALSE)}
       [] i.tag = SETTLE_TOKEN_N_TAG ->
            settling \cup {Needs(3, <<"source">>, FALSE, TRUE),
                           Needs(4 + n, <<"mint">>, FALSE, FALSE),
                           Needs(5 + n, <<"record">>, FALSE, TRUE),
                           Needs(6 + n, <<"system program">>, FALSE, FALSE),
                           Needs(7 + n, <<"token program">>, FALSE, FALSE)}

\* Exactly that many.
ProgramExpects(i) ==
  CASE i.tag = CREATE_NAMESPACE_TAG -> 4
    [] i.tag = SET_NAMESPACE_AUTHORITY_TAG -> 3
    [] i.tag = SETTLE_N_TAG -> Len(i.bps) + 5
    [] i.tag = SETTLE_TOKEN_N_TAG -> Len(i.bps) + 8

\* observeProgramSettlement and observeProgramTokenSettlement: the same list,
\* read back from the transaction; the payee of share k, and the record.
\* findSettlementInstruction reads the namespace of a settlement, and of the
\* creation beside it, at one place.
ObservedNamespace == 2
ObservedRecipient(i, k) == IF i.tag = SETTLE_N_TAG THEN 3 + k - 1 ELSE 4 + k - 1
ObservedRecord(i) == Len(i.bps) + IF i.tag = SETTLE_N_TAG THEN 3 ELSE 5

-----------------------------------------------------------------------------
(* Accounts of the program                                                 *)

NAMESPACE_DISCRIMINATOR == 2
SETTLEMENT_RECORD_DISCRIMINATOR == 1
NAMESPACE_SIZE == 2 + 3 * Key
NAMESPACE_AUTHORITY_OFFSET == 2 + 2 * Key
SETTLEMENT_RECORD_SIZE == 1 + Key + AmountBytes

\* write_namespace
NamespaceBytes(ns) ==
  <<NAMESPACE_DISCRIMINATOR, ns.bump>> \o ns.creator \o ns.id \o ns.authority

\* set_namespace_authority
Rotated(bytes, authority) ==
  [k \in DOMAIN bytes |->
     IF k > NAMESPACE_AUTHORITY_OFFSET THEN authority[k - NAMESPACE_AUTHORITY_OFFSET] ELSE bytes[k]]

\* namespace_authority
IsNamespace(bytes) == Len(bytes) = NAMESPACE_SIZE /\ bytes[1] = NAMESPACE_DISCRIMINATOR
NamespaceAuthority(bytes) == Slice(bytes, NAMESPACE_AUTHORITY_OFFSET + 1, Key)

\* decodeNamespaceAccount
DecodedNamespace(bytes) ==
  [bump |-> bytes[2], creator |-> Slice(bytes, 3, Key), id |-> Slice(bytes, 3 + Key, Key),
   authority |-> Slice(bytes, 3 + 2 * Key, Key)]

\* create_record
RecordBytes(event, amount) ==
  <<SETTLEMENT_RECORD_DISCRIMINATOR>> \o event \o ToBytes(amount, AmountBytes)

\* readSettlementRecord: whether an account is the event's record, and its amount.
IsRecordOf(bytes, event) ==
  /\ Len(bytes) = SETTLEMENT_RECORD_SIZE /\ bytes[1] = SETTLEMENT_RECORD_DISCRIMINATOR
  /\ Slice(bytes, 2, Key) = event
DecodedAmount(bytes) == LittleEndian(Slice(bytes, Key + 2, AmountBytes))

-----------------------------------------------------------------------------
(* Properties                                                              *)

\* Whatever settlement instruction the program executes, the SDK's evidence
\* readers take for the same settlement, and they refuse what it refuses
\* (instruction.ts:3, "Byte layouts must stay in lockstep").
SameReading ==
  \A tag \in SettleTags :
    DecodeSettlement(tag, data) =
      IF Unpack(data).tag = tag THEN Unpack(data) ELSE Refused

\* An instruction has one byte string, without a byte that is ignored: the program's
\* pack writes it, and the SDK does exactly if the program would execute it.
SdkSpeaksProgram ==
  LET i == Unpack(data)
  IN i # Refused => /\ Pack(i) = data
                    /\ Encodable(i) <=> Executable(i)
                    /\ Encodable(i) => Encode(i) = data

\* The accounts the SDK lists are where the program and the SDK's own readers of
\* evidence look for them, with the rights the program demands.
AccountsInPlace ==
  LET i == Unpack(data)
      keys == Keys(i)
      InPlace(r) == LET meta == keys[r.at + 1]
                    IN /\ meta.role = r.needs.role
                       /\ r.needs.signer => meta.signer
                       /\ r.needs.writable => meta.writable
  IN /\ i # Refused =>
          /\ Len(keys) = ProgramExpects(i)
          /\ {r.at : r \in ProgramReads(i)} = 0..(ProgramExpects(i) - 1)
          /\ \A r \in ProgramReads(i) : InPlace(r)
     /\ i.tag \in SettleTags \cup {CREATE_NAMESPACE_TAG} =>
          keys[ObservedNamespace + 1].role = <<"namespace">>
     /\ i.tag \in SettleTags =>
          /\ \A k \in 1..Len(i.bps) :
               keys[ObservedRecipient(i, k) + 1].role = <<"recipient", k>>
          /\ keys[ObservedRecord(i) + 1] = Record

\* A namespace the program would accept reads the same in the SDK, keeps its
\* creator and id through a rotation, and no account is a namespace and a record.
AccountsReadBack ==
  /\ IsNamespace(data) =>
       LET ns == DecodedNamespace(data)
           rotated == Rotated(data, ns.creator)
       IN /\ ns.authority = NamespaceAuthority(data)
          /\ NamespaceBytes(ns) = data
          /\ DecodedNamespace(rotated) = [ns EXCEPT !.authority = ns.creator]
  /\ Len(data) > Key =>
       LET event == Slice(data, 2, Key)
       IN IsRecordOf(data, event) =>
            ~IsNamespace(data) /\ RecordBytes(event, DecodedAmount(data)) = data

\* instruction.ts:3, "lockstep": the SDK and the program agree on where accounts
\* stand in an instruction and on what the bytes of an account mean.
AccountsAgree == AccountsInPlace /\ AccountsReadBack
=============================================================================
