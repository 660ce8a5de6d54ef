-------------------------------- MODULE MCUi --------------------------------
(* A small instance of Ui: a range that keeps its name but not its row.     *)
EXTENDS Ui

MCLayouts == {<<"a", "b">>, <<"b">>}

=============================================================================
