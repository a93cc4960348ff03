----------------------------- MODULE MCTerminal -----------------------------
(***************************************************************************)
(* The terminal driver on one serial port, hot-plug or not, connected     *)
(* with no RemainingDevicePath, with a VT-100 node, and with a node of a  *)
(* GUID Supported refuses.                                                 *)
(***************************************************************************)
EXTENDS TerminalDriver

MCRemainingPaths == {"NULL", "VT100", "Other"}

\* Every call that may fail except OpenProtocolInformation.
MCFaults == {"TagInstall", "DefaultNode", "TerminalDevice", "WaitForKeyEx",
             "WaitForKey", "DevicePath", "ConInReset", "ConOut",
             "TwoSecondTimeOut", "NameTable", "Install", "HotPlugInstall",
             "ByChild"}

\* OpenProtocolInformation alone may fail.
MCOpenInfoFaults == {"OpenInfo"}
=============================================================================
