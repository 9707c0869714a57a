----------------------------- MODULE MCSpsPatch -----------------------------
(***************************************************************************)
(* Inputs for SpsPatch: SPSs built from field values, element by element   *)
(* in the order of the standard, and what their patched forms must be.     *)
(***************************************************************************)
EXTENDS SpsPatch

SE(v) == UE(IF v > 0 THEN 2 * v - 1 ELSE -2 * v)

Concat(seqs) == FoldLeft(LAMBDA acc, s : acc \o s, << >>, seqs)

\* The bits in front of vui_parameters_present_flag. offsets is << >> when the
\* order count type is not 1.
SpsBits(v) ==
    U(v.profile, 8) \o U(v.flags, 8) \o U(32, 8)
    \o UE(0) \o UE(v.chroma) \o UE(0) \o UE(0) \o <<0, v.scaling>>
    \o UE(v.frameNum) \o UE(v.poc)
    \o (CASE v.poc = 0 -> UE(4)
          [] v.poc = 1 -> <<0>> \o SE(-2) \o SE(1) \o UE(Len(v.offsets))
                          \o Concat([i \in DOMAIN v.offsets |-> SE(v.offsets[i])])
          [] OTHER -> << >>)
    \o UE(v.refs) \o <<0>> \o UE(v.width) \o UE(44)
    \o (IF v.frames = 1 THEN <<1>> ELSE <<0, 1>>) \o <<1>>
    \o (IF v.crop = << >> THEN <<0>>
        ELSE <<1>> \o Concat([i \in 1 .. 4 |-> UE(v.crop[i])]))

Encoded(v) ==
    AddEmulation(ToBytes(Trailing(
        SpsBits(v) \o (IF v.vui THEN VuiBits(v.refs) ELSE <<0>>))))

Base == [profile |-> 100, flags |-> 12, chroma |-> 1, scaling |-> 0,
         frameNum |-> 0, poc |-> 2, offsets |-> << >>, refs |-> 1, width |-> 79,
         frames |-> 1, crop |-> << >>, vui |-> FALSE]

\* Every alignment of the VUI to the byte grid (frameNum and frames), every
\* branch of the syntax, and an offset with so many zeros that the input itself
\* has emulation bytes.
Handled ==
    {[Base EXCEPT !.frameNum = k, !.poc = p[1], !.offsets = p[2], !.refs = r,
                  !.frames = f, !.crop = c] :
        k \in {0, 1, 3, 7},
        p \in {<<0, << >>>>, <<1, << >>>>, <<1, <<-1, 3145728>>>>, <<2, << >>>>},
        r \in {1, 4}, f \in {0, 1}, c \in {<< >>, <<0, 3, 1, 8>>}}

\* One field that the tool does not handle each.
NotHandled ==
    {[Base EXCEPT !.profile = 77], [Base EXCEPT !.chroma = 3],
     [Base EXCEPT !.scaling = 1], [Base EXCEPT !.width = 119],
     [Base EXCEPT !.vui = TRUE]}

HandledInputs == {Encoded(v) : v \in Handled}
\* Bytes that end within an element, and a code that never comes to its one.
Malformed == {SubSeq(Encoded(Base), 1, 8), <<100, 12, 32, 0, 0, 0, 0, 0>>}

\* ORIG_SPS_NAL, its header byte left out: it has a VUI already.
OwnInput == <<100, 12, 32, 172, 43, 64, 40, 2, 221, 53, 1, 13, 1, 224, 128>>

EncodedInputs ==
    HandledInputs \cup {Encoded(v) : v \in NotHandled} \cup Malformed \cup {OwnInput}

Patches == {[of |-> Encoded(v), bits |-> SpsBits(v) \o VuiBits(v.refs)] : v \in Handled}

-----------------------------------------------------------------------------
\* The output carries the input's fields bit by bit, the VUI and a proper end,
\* and nothing else, whatever the alignment and the emulation bytes on both
\* sides; and only a stream the tool knows how to handle gets that far
\* (strip_emulation to add_emulation, with the copy in between).
OnlyVuiAdded ==
    stage = "done" =>
        LET new == StripEmulation(output)
        IN \E patch \in Patches, pad \in 0 .. 7 :
              /\ input = patch.of
              /\ Bits(new, 8 * Len(new)) =
                     patch.bits \o <<1>> \o [i \in 1 .. pad |-> 0]

\* The tool never fails on a stream it handles: its self-check accepts what it
\* wrote itself. (Every input comes to a verdict: a tool stuck before one would
\* be a deadlock of the run.)
HandledIsPatched == stage = "failed" => input \notin HandledInputs

=============================================================================
