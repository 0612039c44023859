\* Two strings and two lists of up to two entries, memory short once, and
\* RlpEncode called once where there is a stream.  A list
\* whose initialisation failed is freed, which ends the process.
SPECIFICATION Spec
CONSTANTS
  Fields = {"value"}
  Payloads = {"data"}
  Inner = "inner"
  Outer = "tx"
  MAX_RLP_LIST_DESC_NUM = 2
  FIELD_SIZE = 2
  Quantities <- MCQuantities
  Datas <- MCDatas
  Recipients <- MCRecipients
  Hrp <- MCHrp
  MaxFaults = 1
  MaxOver = 1
INVARIANTS NodeReadsTheList NoBlockLost QuantityIsWhatWasWritten AddressChecked
CHECK_DEADLOCK FALSE
