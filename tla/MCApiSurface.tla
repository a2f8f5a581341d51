---------------------------- MODULE MCApiSurface ----------------------------
(***************************************************************************)
(* ApiSurface with one resource.                                           *)
(***************************************************************************)
EXTENDS ApiSurface

MCPublished == <<"Product">>
MCPlural == [Product |-> "products"]
MCExtras == {<<"Product", [method |-> "GET", path |-> <<"bestsellers">>]>>}
MCRelatable == {<<"Product", "Product">>}
=============================================================================
