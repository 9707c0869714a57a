------------------------------- MODULE SpsPatch -------------------------------
(***************************************************************************)
(* tools/patch_sps_vui.py: an H.264 sequence parameter set (SPS) without   *)
(* VUI goes in, the same one with a VUI that bounds reordering comes out.  *)
(* Emulation prevention bytes are stripped, the fields are read one by one *)
(* (fixed-width and Exp-Golomb codes) with an assertion on those the tool  *)
(* cannot handle, the bits before the VUI flag are copied, the VUI is      *)
(* appended, the result is parsed again and compared, and emulation bytes  *)
(* are put back. An assertion that fails, or reading past the end, stops   *)
(* the tool.                                                               *)
(*                                                                         *)
(* One step per element read. What the tool prints is left out, and the    *)
(* byte of the NAL header with it. The profile is asserted where it is     *)
(* read, one element before the tool does.                                 *)
(***************************************************************************)
EXTENDS Integers, Sequences, SequencesExt

CONSTANT Inputs     \* the NAL units, header byte left out, the tool is given

ASSUME InputsAssumption == \A bytes \in Inputs : bytes \in Seq(0 .. 255)

VARIABLES
    stage,          \* "parse", "verify" (the output), "done" or "failed"
    input,          \* ORIG_SPS_NAL
    rbsp,           \* the bytes being parsed
    pos,            \* BitReader.pos
    todo,           \* the syntax elements still to be read
    fields,         \* the elements read, with their values, in order
    vuiFlagPos,     \* where the input has vui_parameters_present_flag
    original,       \* fields of the input
    output          \* new_nal

vars == <<stage, input, rbsp, pos, todo, fields, vuiFlagPos, original, output>>

-----------------------------------------------------------------------------
(***************************************************************************)
(* Emulation prevention: in a NAL unit a 3 follows two zeros that would    *)
(* otherwise be followed by a byte up to 3.                                *)
(***************************************************************************)
Scan(zeros, b) == IF b = 0 THEN zeros + 1 ELSE 0

Strip(acc, b) ==
    IF acc.zeros >= 2 /\ b = 3
    THEN [acc EXCEPT !.zeros = 0]
    ELSE [out |-> Append(acc.out, b), zeros |-> Scan(acc.zeros, b)]

\* Mutant: the byte 3 itself needs no prevention.
NeedsEmulationBelow3(zeros, b) == zeros >= 2 /\ b < 3
\* Mutant: three zeros are needed.
NeedsEmulationLate(zeros, b) == zeros >= 3 /\ b <= 3
NeedsEmulation(zeros, b) == zeros >= 2 /\ b <= 3

\* Mutant: the zeros in front of an inserted byte go on counting.
AddWithoutReset(acc, b) ==
    IF NeedsEmulation(acc.zeros, b)
    THEN [out |-> acc.out \o <<3, b>>, zeros |-> Scan(acc.zeros, b)]
    ELSE [out |-> Append(acc.out, b), zeros |-> Scan(acc.zeros, b)]
Add(acc, b) ==
    IF NeedsEmulation(acc.zeros, b)
    THEN [out |-> acc.out \o <<3, b>>, zeros |-> Scan(0, b)]
    ELSE [out |-> Append(acc.out, b), zeros |-> Scan(acc.zeros, b)]

Nothing == [out |-> << >>, zeros |-> 0]

\* The state of either loop after each of the bytes.
Stripping(bytes) ==
    LET after[k \in 0 .. Len(bytes)] ==
            IF k = 0 THEN Nothing ELSE Strip(after[k - 1], bytes[k])
    IN after

Adding(bytes) ==
    LET after[k \in 0 .. Len(bytes)] ==
            IF k = 0 THEN Nothing ELSE Add(after[k - 1], bytes[k])
    IN after

StripEmulation(bytes) == Stripping(bytes)[Len(bytes)].out
AddEmulation(bytes)   == Adding(bytes)[Len(bytes)].out

-----------------------------------------------------------------------------
(***************************************************************************)
(* BitReader.                                                              *)
(***************************************************************************)
Weight == <<128, 64, 32, 16, 8, 4, 2, 1>>
Bit(bytes, p) == (bytes[(p \div 8) + 1] \div Weight[(p % 8) + 1]) % 2

\* The number bits stand for, most significant first, after each of them.
Reading(bits) ==
    LET value[k \in 0 .. Len(bits)] ==
            IF k = 0 THEN 0 ELSE 2 * value[k - 1] + bits[k]
    IN value
Number(bits) == Reading(bits)[Len(bits)]

\* u(n) at p.
Unsigned(bytes, p, n) == Number([i \in 1 .. n |-> Bit(bytes, p + i - 1)])

\* The zeros in front of an Exp-Golomb code; -1 when 32 of them are read, or the
\* bytes end.
LeadingZeros(bytes, p) ==
    LET runs == {k \in 0 .. 31 : p + k < 8 * Len(bytes) /\ Bit(bytes, p + k) = 1}
    IN IF runs = {} THEN -1 ELSE CHOOSE k \in runs : \A j \in runs : k <= j

\* A signed code: 1, -1, 2, -2 for 1, 2, 3, 4.
Signed(k) == IF k % 2 = 1 THEN (k + 1) \div 2 ELSE -(k \div 2)

-----------------------------------------------------------------------------
(***************************************************************************)
(* BitWriter: bits as sequences.                                           *)
(***************************************************************************)
\* v >> n, up to 32 places.
Shifted(v) ==
    LET rest[k \in 0 .. 32] == IF k = 0 THEN v ELSE rest[k - 1] \div 2
    IN rest
ShiftRight(v, n) == Shifted(v)[n]

U(v, n) == [i \in 1 .. n |-> ShiftRight(v, n - i) % 2]

\* int.bit_length. What is written is 0, 16 or was read with at most 31 zeros in
\* front, so that 32 bits are enough.
BitLength(v) ==
    CHOOSE n \in 1 .. 32 : ShiftRight(v, n - 1) # 0 /\ ShiftRight(v, n) = 0
UE(v) == U(0, BitLength(v + 1) - 1) \o U(v + 1, BitLength(v + 1))

Bits(bytes, n) == [i \in 1 .. n |-> Bit(bytes, i - 1)]

\* rbsp_trailing: a one, then zeros up to a byte.
Trailing(bits) == bits \o <<1>> \o [i \in 1 .. (7 - (Len(bits) % 8)) |-> 0]

ToBytes(bits) ==
    [i \in 1 .. Len(bits) \div 8 |-> Number([j \in 1 .. 8 |-> bits[8 * (i - 1) + j]])]

-----------------------------------------------------------------------------
(***************************************************************************)
(* The syntax: elements with the code they are in, what each adds to what  *)
(* is still to be read, and the values the tool accepts.                   *)
(***************************************************************************)
u(n, name) == [name |-> name, code |-> "u", width |-> n]
ue(name)   == [name |-> name, code |-> "ue", width |-> 0]
se(name)   == [name |-> name, code |-> "se", width |-> 0]

Syntax ==
    <<u(8, "profile_idc"), u(8, "constraint_flags"), u(8, "level_idc"),
      ue("sps_id"), ue("chroma_format_idc"), ue("bit_depth_luma"),
      ue("bit_depth_chroma"), u(1, "qpprime_y_zero_flag"),
      u(1, "seq_scaling_matrix_present"), ue("log2_max_frame_num"),
      ue("pic_order_cnt_type"), ue("max_num_ref_frames"),
      u(1, "gaps_in_frame_num_allowed"), ue("pic_width_in_mbs_minus1"),
      ue("pic_height_in_map_units_minus1"), u(1, "frame_mbs_only_flag"),
      u(1, "direct_8x8_inference_flag"), u(1, "frame_cropping_flag"),
      u(1, "vui_present")>>

VuiSyntax ==
    <<u(1, "aspect_ratio_info"), u(1, "overscan_info"), u(1, "video_signal_type"),
      u(1, "chroma_loc_info"), u(1, "timing_info"), u(32, "num_units_in_tick"),
      u(32, "time_scale"), u(1, "fixed_frame_rate"), u(1, "nal_hrd"),
      u(1, "vcl_hrd"), u(1, "pic_struct_present"), u(1, "bitstream_restriction"),
      u(1, "mv_over_pic_boundaries"), ue("max_bytes_per_pic_denom"),
      ue("max_bits_per_mb_denom"), ue("log2_max_mv_h"), ue("log2_max_mv_v"),
      ue("max_num_reorder_frames"), ue("max_dec_frame_buffering")>>

\* Mutant: cropping offsets are not read.
ExpandsNoCrop(name, v, expectVui) ==
    CASE name = "pic_order_cnt_type" /\ v = 0 -> <<ue("log2_max_poc_lsb")>>
      [] name = "vui_present" /\ expectVui -> VuiSyntax
      [] OTHER -> << >>
\* What must be read right after an element because of its value.
Expands(name, v, expectVui) ==
    CASE name = "pic_order_cnt_type" /\ v = 0 -> <<ue("log2_max_poc_lsb")>>
      [] name = "pic_order_cnt_type" /\ v = 1 ->
           <<u(1, "delta_pic_order_always_zero"), se("offset_for_non_ref_pic"),
             se("offset_for_top_to_bottom"), ue("n")>>
      [] name = "n" -> [i \in 1 .. v |-> se("offset")]
      [] name = "frame_mbs_only_flag" /\ v = 0 -> <<u(1, "mb_adaptive_frame_field")>>
      [] name = "frame_cropping_flag" /\ v = 1 -> [i \in 1 .. 4 |-> ue("crop")]
      [] name = "vui_present" /\ expectVui -> VuiSyntax
      [] OTHER -> << >>

HighProfiles == {100, 110, 122, 244, 44, 83, 86, 118, 128}

Asserted(name, v, expectVui) ==
    CASE name = "profile_idc" -> v \in HighProfiles
      [] name = "chroma_format_idc" -> v # 3
      [] name = "seq_scaling_matrix_present" -> v = 0
      [] name \in {"aspect_ratio_info", "overscan_info", "video_signal_type",
                   "chroma_loc_info", "nal_hrd", "vcl_hrd", "pic_struct_present"} ->
           v = 0
      [] name \in {"timing_info", "bitstream_restriction"} -> v = 1
      [] name = "vui_present" -> expectVui => v = 1
      [] OTHER -> TRUE

ValueOf(fs, name) == (CHOOSE f \in ToSet(fs) : f.name = name).value

\* The VUI, its flag included, as it is appended.
VuiBits(refFrames) ==
    <<1, 0, 0, 0, 0, 1>> \o U(1, 32) \o U(60, 32) \o <<1, 0, 0, 0, 1, 1>>
    \o UE(0) \o UE(0) \o UE(16) \o UE(16) \o UE(0) \o UE(refFrames)

-----------------------------------------------------------------------------
(***************************************************************************)
(* main.                                                                   *)
(***************************************************************************)
Init ==
    /\ stage = "parse" /\ input \in Inputs
    /\ rbsp = StripEmulation(input)
    /\ pos = 0 /\ todo = Syntax /\ fields = << >> /\ vuiFlagPos = 0
    /\ original = << >> /\ output = << >>

Verifying == stage = "verify"
Element == Head(todo)

\* The value of the element e at p and the position behind it; end: -1 when there
\* is no such element.
Decode(bytes, p, e) ==
    LET zeros == LeadingZeros(bytes, p)
        k     == Unsigned(bytes, p + zeros, zeros + 1) - 1
        code  == p + 2 * zeros + 1
    IN CASE e.code = "u" /\ p + e.width <= 8 * Len(bytes) ->
              [value |-> Unsigned(bytes, p, e.width), end |-> p + e.width]
         [] e.code # "u" /\ zeros >= 0 /\ code <= 8 * Len(bytes) ->
              [value |-> IF e.code = "ue" THEN k ELSE Signed(k), end |-> code]
         [] OTHER -> [value |-> 0, end |-> -1]

Decoded == Decode(rbsp, pos, Element)

\* Mutant: bytes that end within an element are not noticed.
AcceptsTruncated(d) == Asserted(Element.name, d.value, Verifying)
Accepted(d) == d.end >= 0 /\ Asserted(Element.name, d.value, Verifying)

\* One call of the reader that the tool goes on from.
ReadElement ==
    /\ stage \in {"parse", "verify"} /\ todo # << >>
    /\ LET d == Decoded
       IN /\ Accepted(d)
          /\ pos' = d.end
          /\ fields' = Append(fields, [name |-> Element.name, value |-> d.value])
          /\ todo' = Expands(Element.name, d.value, Verifying) \o Tail(todo)
    /\ vuiFlagPos' = IF ~Verifying /\ Element.name = "vui_present"
                     THEN pos ELSE vuiFlagPos
    /\ UNCHANGED <<stage, input, rbsp, original, output>>

\* The tool only handles this stream, and only without VUI.
Expected ==
    /\ ValueOf(fields, "vui_present") = 0
    /\ (ValueOf(fields, "pic_width_in_mbs_minus1") + 1) * 16 = 1280
    /\ (ValueOf(fields, "pic_height_in_map_units_minus1") + 1) * 16 = 720

\* Mutant: the flag is copied too.
CopiedWithFlag == Bits(rbsp, vuiFlagPos + 1)
\* The bits before vui_parameters_present_flag.
CopiedBits == Bits(rbsp, vuiFlagPos)

Patch ==
    /\ stage = "parse" /\ todo = << >> /\ Expected
    /\ stage' = "verify"
    /\ rbsp' = ToBytes(Trailing(CopiedBits
                           \o VuiBits(ValueOf(fields, "max_num_ref_frames"))))
    /\ pos' = 0 /\ todo' = Syntax /\ fields' = << >> /\ original' = fields
    /\ UNCHANGED <<input, vuiFlagPos, output>>

\* Every field but the flag itself reads as before, and so does the VUI.
SelfCheck ==
    /\ SubSeq(fields, 1, Len(original) - 1) = SubSeq(original, 1, Len(original) - 1)
    /\ ValueOf(fields, "max_num_reorder_frames") = 0
    /\ ValueOf(fields, "time_scale") = 60

Emit ==
    /\ stage = "verify" /\ todo = << >> /\ SelfCheck
    /\ stage' = "done" /\ output' = AddEmulation(rbsp)
    /\ UNCHANGED <<input, rbsp, pos, todo, fields, vuiFlagPos, original>>

\* An assertion that does not hold, or a read past the end.
Raises ==
    /\ stage \in {"parse", "verify"}
    /\ \/ todo # << >> /\ ~Accepted(Decoded)
       \/ todo = << >> /\ stage = "parse" /\ ~Expected
       \/ todo = << >> /\ stage = "verify" /\ ~SelfCheck
    /\ stage' = "failed"
    /\ UNCHANGED <<input, rbsp, pos, todo, fields, vuiFlagPos, original, output>>

\* The process has ended.
Exited == stage \in {"done", "failed"} /\ UNCHANGED vars

Next == ReadElement \/ Patch \/ Emit \/ Raises \/ Exited

Spec == Init /\ [][Next]_vars

-----------------------------------------------------------------------------
(***************************************************************************)
(* Properties. What the output must be, and which inputs must be patched,  *)
(* is stated in MCSpsPatch, where the inputs are built from field values.  *)
(***************************************************************************)

\* Every element there can be in an SPS, and what is kept of one that was read.
Elements ==
    ToSet(Syntax) \cup ToSet(VuiSyntax)
    \cup {ue("log2_max_poc_lsb"), u(1, "delta_pic_order_always_zero"),
          se("offset_for_non_ref_pic"), se("offset_for_top_to_bottom"), ue("n"),
          se("offset"), u(1, "mb_adaptive_frame_field"), ue("crop")}
Entries == [name : {e.name : e \in Elements}, value : Int]

\* The reader never stands behind the end of its bytes, bytes are bytes, and
\* only a tool that is done has an output.
TypeOK ==
    /\ stage \in {"parse", "verify", "done", "failed"}
    /\ input \in Inputs
    /\ rbsp \in Seq(0 .. 255) /\ pos \in 0 .. 8 * Len(rbsp)
    /\ todo \in Seq(Elements) /\ fields \in Seq(Entries) /\ original \in Seq(Entries)
    /\ output \in Seq(0 .. 255) /\ (output # << >> <=> stage = "done")

\* What is emitted reads, without its emulation bytes, as the input up to its VUI
\* flag, then the VUI and a proper end: nothing of the stream's own parameters is
\* lost, moved or changed on the way through three representations, and the flag
\* that made way for the VUI was clear.
OnlyVuiAppended ==
    stage = "done" =>
        LET old == StripEmulation(input)
            new == StripEmulation(output)
        IN /\ Bit(old, vuiFlagPos) = 0
           /\ Bits(new, 8 * Len(new)) =
                  Trailing(Bits(old, vuiFlagPos)
                           \o VuiBits(ValueOf(original, "max_num_ref_frames")))

\* The tool never refuses what it wrote itself (self-check of main): an SPS it
\* has parsed and accepted is patched.
SelfCheckPasses == [][stage = "verify" => stage' # "failed"]_vars

\* What is emitted can be put into a byte stream: no two zeros are followed by a
\* byte that a decoder would take for a start code or part of one.
EmulationSafe ==
    \A i \in 1 .. Len(output) - 2 :
        output[i] = 0 /\ output[i + 1] = 0 => output[i + 2] > 2

=============================================================================
