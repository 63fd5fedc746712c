------------------------------- MODULE MCGstFs --------------------------------
(* A base directory and one below it, with files to be transcoded, a target  *)
(* that exists beside its source and one without a source, and a directory   *)
(* elsewhere.                                                                *)
EXTENDS GstFs

MCExtension == {<<"flac">>, <<"ogg">>, <<"mp3">>}
MCPipeline == {""}
MCName == {<<"a", "flac">>, <<"a", "ogg">>, <<"a", "mp3">>, <<"b", "ogg">>,
           <<"a", "ogg", "flac">>, <<"", "flac">>, <<"c">>}
MCRoot == <<"">>
MCSub == <<"d">>
MCSubdir == {MCSub}
MCElsewhere == <<"elsewhere">>
MCFew == {<<"a", "flac">>, <<"c">>}
MCMany == {<<"a", "flac">>, <<"a", "ogg">>, <<"b", "ogg">>}
MCTree == {[d \in {MCRoot, MCSub, MCElsewhere} |->
              CASE d = MCRoot -> s
                [] d = MCSub -> t
                [] d = MCElsewhere -> {<<"b", "ogg">>, <<"c">>}] :
             <<s, t>> \in {<<MCFew, MCMany>>, <<MCMany, MCFew>>, <<{}, MCFew>>}}
=============================================================================
