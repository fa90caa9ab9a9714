---- MODULE MCWebClient ----
\* WebClient with an entry's client and a dialog's beside Modbus.
EXTENDS WebClient

CONSTANTS entry, dialog
====
