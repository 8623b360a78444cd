------------------------------ MODULE MCPager -------------------------------
(* TLC instance of Pager.                                                  *)
EXTENDS Pager

Setting(crash_kinds, io_errors, bound) ==
    [crash_kinds |-> crash_kinds, io_errors |-> io_errors, flushes |-> bound]

OneKindOfCrash == {Setting({"power"}, FALSE, 2), Setting({"process"}, FALSE, 2),
                   Setting({"power"}, TRUE, 1)}
=============================================================================
