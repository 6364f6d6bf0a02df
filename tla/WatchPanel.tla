----------------------------- MODULE WatchPanel -----------------------------
(* What the watch panel does with a value: its bytes are moved to and from  *)
(* the target, and a text that is typed becomes bytes and these a text that *)
(* is shown.  part says which of the two is looked at.                      *)
EXTENDS Transfer

CONSTANTS Word, CodecTypes, CodecDatas, CodecTexts      \* ValueCodec

VARIABLES
    part,
    type, bytes, shown, typed, error                    \* ValueCodec

codecVars == <<type, bytes, shown, typed, error>>
panelVars == <<part, vars, codecVars>>

Codec == INSTANCE ValueCodec WITH
    Types <- CodecTypes, Datas <- CodecDatas, Texts <- CodecTexts, data <- bytes

ASSUME ValuesAssumption == Codec!CodecAssumption

-----------------------------------------------------------------------------
NoValue == type = {} /\ bytes = <<>> /\ shown = {} /\ typed = {} /\ error = FALSE
Still == mem = [a \in Addresses |-> CHOOSE b \in Bytes : TRUE]

PanelInit ==
    /\ Init
    /\ \/ part = "transfer" /\ NoValue
       \/ part = "codec" /\ Still /\ Codec!Init

TransferStep(A) == part = "transfer" /\ A /\ UNCHANGED <<part, codecVars>>
CodecStep(A) == part = "codec" /\ A /\ UNCHANGED <<part, vars>>

PanelNext == TransferStep(Next) \/ CodecStep(Codec!Next)

(* The UI thread runs and every transaction returns.                        *)
PanelSpec ==
    /\ PanelInit /\ [][PanelNext]_panelVars
    /\ WF_panelVars(TransferStep(UiThread /\ UNCHANGED running))

-----------------------------------------------------------------------------
(* What is shown is the number the bytes stand for; a number that is typed  *)
(* is shown again, or refused where there is no room for it, and Python     *)
(* writes the same bytes for it (value_codec.cpp, base_tas.py).             *)
CodecRight ==
    part = "codec" =>
        Codec!TypeOK /\ Codec!ShownRight /\ Codec!ShownIsTyped /\ Codec!PythonSame /\ Codec!RefusesOthers

(* value_codec.hpp: decimal and hex integers are accepted; here, those the  *)
(* variable has room for.                                                   *)
NumbersAccepted == part = "codec" => Codec!AcceptsNumbers
=============================================================================
