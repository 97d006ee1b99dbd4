SPECIFICATION Spec
CONSTANTS
  Warehouses = {1}
  NumPerWarehouse = 2
  MaxWarehouseId = 100
  Customers = 3
  NewOrders = 1
  MaxOrders = 4
  MaxDeliveries = 1
CHECK_DEADLOCK FALSE
PROPERTIES DeliversLowest
