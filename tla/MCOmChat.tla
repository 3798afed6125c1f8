------------------------------ MODULE MCOmChat ------------------------------
(* TLC instances of OmChat. *)
EXTENDS OmChat

CONSTANTS ann, ben, pal

MCNames == {pal, ShortKey(ann)}

MCLines ==
    {Add(pal, ann), Add(pal, ben), Add(ShortKey(ann), ben), Accept(ShortKey(ann)), Msg(pal), Msg(Key(ben)),
     Reject(pal), Text, Quit, QuitNow, Other}
=============================================================================
