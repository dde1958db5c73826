---------------------------- MODULE MCSelectLoop ----------------------------
(* Instances of SelectLoop.                                                *)
EXTENDS SelectLoop

Both == {"select", "pselect"}
Pselect == {"pselect"}

NoneOrBoth == {{}, Dirs}

Careful == {}
RearmsLate == {"rearm_removing"}
OneWay == {"one_way"}
RemovesPolling == {"remove_polling"}
AddsDisabled == {"add_disabled"}
RaisesAgain == {"raise_again"}
=============================================================================
