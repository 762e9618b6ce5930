------------------------------ MODULE MCCommands ------------------------------
(* What a line that is run changes, on small instances side by side: the      *)
(* documents, the names of the lanes, the key, the pages that are run line by *)
(* line. None of them reads another's state: each moves only while the others *)
(* are as they were at the start.                                             *)
EXTENDS DocBuffers, LaneNames, SeqKey, CommandLine

CONSTANTS scratch, out, song

\* DocBuffers: three buffers, one filed name, the scratch document and "+out".
FewNames  == {scratch, out, song}
FewStored == [n \in FewNames |-> n]

\* LaneNames: '>a = disc' makes a picture's second name; 'nothing' is no picture.
A(b, i, p) == [base |-> b, inst |-> i, part |-> p]
SomeAddresses == {A("a", 1, ""), A("a", 1, "vel"), A("a", 1, "oct"), A("b", 1, ""), A("disc", 1, "x")}
SomeSources == {A("a", 1, "")}
SomeDefinitions == {[kind |-> k, num |-> 1] : k \in {"cc", "picture", "knob", "nothing", "voice"}}

\* SeqKey.
SomeSpecs == {<<"c", "b", "lues">>, <<"e", "b", "b", "lues">>, <<"b", "#", "maj", "5">>,
              <<"f", "#", "mix">>, <<"d">>, <<"g", "maj">>, <<"d", "x">>}

\* CommandLine.
L(v) == Line(v, "")
SomeBoot == {<<>>, <<L("lane")>>, <<DefineNames, L("usb")>>, <<Line("run", "song")>>,
             <<L("lane"), DefineNames>>}
SomeSongs == {<<a, b>> : a, b \in {L("lane"), Line("open", "boot"), L("new"), L("close"), L("run"),
                                    Line("run", "song"), L("list"), L("kbd")}}
SomeTyped == {Line("run", "song"), L("run"), Line("run", "none"), Line("open", "song"),
              Line("open", "+out"), L("usb"), L("list"), L("new"), L("close")}
SomeWritten == {L("list")}

BuffersWait == BuffersInit /\ UNCHANGED bufferVars
NamesWait == NamesInit /\ UNCHANGED namesVars
KeyWaits == KeyInit /\ UNCHANGED keyVars
CommandWaits ==
    /\ page = (0 :> Blank @@ 1 :> [name |-> "song", lines |-> <<L("lane"), L("lane")>>])
    /\ defined = "cold" /\ UNCHANGED commandVars
CommandsInit == BuffersInit /\ NamesInit /\ KeyInit /\ CommandInit
CommandsNext ==
    \/ NamesWait /\ KeyWaits /\ CommandWaits /\ BuffersNext
    \/ BuffersWait /\ KeyWaits /\ CommandWaits /\ NamesNext
    \/ BuffersWait /\ NamesWait /\ CommandWaits /\ KeyNext
    \/ BuffersWait /\ NamesWait /\ KeyWaits /\ CommandNext
CommandsSpec ==
    CommandsInit /\ [][CommandsNext]_<<bufferVars, namesVars, keyVars, commandVars>>
==============================================================================
