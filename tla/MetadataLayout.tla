--------------------------- MODULE MetadataLayout ---------------------------
(***************************************************************************)
(* Which byte of which packet the transformer of the IMIS gets where: from *)
(* the parser, which cuts a packet into header and payload, through the    *)
(* pool, which lays the pieces out, to the 40 x 40 image of the analyzer;  *)
(* next to it the image the model was trained on (YaTC/dataset.py).        *)
(*                                                                         *)
(* A cell is <<packet of the flow, byte counted from its IP header>>, or   *)
(* Zero.  Values of bytes, the masking of addresses and the normalisation  *)
(* of the training images are left out.  A byte behind the end of the      *)
(* packet is a cell too: the code copies what the buffer holds there.      *)
(***************************************************************************)
EXTENDS Integers, Sequences
LOCAL INSTANCE SequencesExt

CONSTANTS Proto,            \* of the flow: "tcp", "udp", "natt" (ESP in UDP)
          L4Words,          \* lengths of its TCP headers, in 4-byte words
          Payloads,         \* lengths of the payloads
          PacketsPerFlow,   \* METADATA_NUM_PER_FLOW
          HdrBytes, PayloadBytes  \* PacketMetadata: hdr[80], payload[240]

VARIABLES packets,            \* the flow's packets so far, as they were sent
          metadata_sequence,  \* what the pool keeps of them
          input_vec_c         \* what the analyzer is given of the flow

vars == <<packets, metadata_sequence, input_vec_c>>

Init == packets = << >> /\ metadata_sequence = << >> /\ input_vec_c = << >>
-----------------------------------------------------------------------------
Zero == <<0, 0>>

IpHdr == 20

\* Cells from .. from + len - 1 of packet j.
Bytes(j, from, len) == [i \in 1 .. len |-> <<j, from + i - 1>>]

\* vector::resize(n, 0), and the same in hexadecimal in dataset.py.
Resize(v, n) == [i \in 1 .. n |-> IF i <= Len(v) THEN v[i] ELSE Zero]

\* The header as it is on the wire, and the length of the IP packet.
HdrLen(pkt) == IpHdr + IF pkt.proto = "tcp" THEN 4 * pkt.words ELSE 8
ip_len(pkt) == HdrLen(pkt) + pkt.payload

\* The byte that holds the data offset in its high half, masked; with NAT-T the
\* ESP header counts as header too.
l4_hdr_len(pkt) == CASE pkt.proto = "tcp" -> 16 * pkt.words
                     [] pkt.proto = "natt" -> 16
                     [] OTHER -> 8

\* A 16-bit difference.
payload_len(pkt) == (ip_len(pkt) - IpHdr - l4_hdr_len(pkt)) % 65536

UpTo(n, limit) == IF n <= limit THEN n ELSE limit

\* PacketMetadata of packet j, and in_pool's vector of it.
MetadataVector(pkt, j) ==
  LET payload_offset == IpHdr + l4_hdr_len(pkt)
      hdr == Bytes(j, 0, UpTo(payload_offset, HdrBytes))
      payload == Bytes(j, payload_offset, UpTo(payload_len(pkt), PayloadBytes))
  IN Resize(Resize(hdr, HdrBytes) \o payload, 240)

\* The parser extracts the next packet and in_pool appends it.
InPool(pkt) ==
  /\ Len(packets) < PacketsPerFlow
  /\ packets' = Append(packets, pkt)
  /\ metadata_sequence' = Append(metadata_sequence, MetadataVector(pkt, Len(packets) + 1))
  /\ UNCHANGED input_vec_c

\* out_pool hands over what there is of the flow.
OutPool ==
  /\ metadata_sequence # << >>
  /\ input_vec_c' = Resize(FlattenSeq(metadata_sequence), PacketsPerFlow * 320)
  /\ UNCHANGED <<packets, metadata_sequence>>

Packet == [proto : Proto, words : L4Words, payload : Payloads]

Next == OutPool \/ \E pkt \in Packet : InPool(pkt)

Spec == Init /\ [][Next]_vars
-----------------------------------------------------------------------------
\* flow_pre_processing(): header and payload of each packet cut or filled up to
\* their sizes, missing packets filled with zeros.
Trained(flow) ==
  LET Image(j) ==
        IF j > Len(flow) THEN Resize(<< >>, HdrBytes + PayloadBytes)
        ELSE Resize(Bytes(j, 0, HdrLen(flow[j])), HdrBytes)
             \o Resize(Bytes(j, HdrLen(flow[j]), flow[j].payload), PayloadBytes)
  IN FlattenSeq([j \in 1 .. PacketsPerFlow |-> Image(j)])

\* What the analyzer is given of a flow is the image the model was trained to
\* classify such a flow by: every byte of header and payload in its place.
InputAsTrained ==
  input_vec_c # << >> =>
    \E n \in 1 .. Len(packets) : input_vec_c = Trained(SubSeq(packets, 1, n))
=============================================================================
