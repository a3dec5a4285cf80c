-------------------------------- MODULE MCXml --------------------------------
(* The parts XmlTree is given in MCConversions: plain elements, and        *)
(* alternate content whose choices declare a supported or another prefix,  *)
(* with alternate content in a fallback.                                   *)

Tag(name, declares) == [name |-> name, declares |-> declares]
XmlContent ==
    [part |-> {Tag("plain", <<"w">>)},
     plain |-> {Tag("alternate", <<>>)},
     leaf |-> {},
     alternate |-> {Tag("choice", <<>>), Tag("choice", <<"x">>), Tag("fallback", <<>>)},
     choice |-> {Tag("leaf", <<>>)},
     fallback |-> {Tag("leaf", <<>>), Tag("alternate", <<>>)}]
==============================================================================
